---- MODULE Spec2Model ----
(***************************************************************************)
(* Event session manager of the edge video-analytics agent                 *)
(* (agent/app/utils/event_session_manager.py).                             *)
(*                                                                         *)
(* Threads: the callers of handle_event_frame, the expiry sweeper          *)
(* (_background_worker), the single encode worker (_encode_worker) and the *)
(* caller of stop().  Every `with self.lock` block is one atomic action.   *)
(* Time is the integer clock `clock` (seconds, now()).                     *)
(*                                                                         *)
(* Further components, each with its own variables and specification:      *)
(*   LockSpec  the threads of the session manager at the granularity of    *)
(*             the acquisitions and releases of self.lock                  *)
(*   HubSpec   the camera publishers (frame_hub.py), the camera documents  *)
(*             and the camera half of the runner's reconciliation tick     *)
(*             (runner.py); HubFairSpec adds the scheduling of the         *)
(*             publisher processes                                         *)
(*   TaskSpec  the agent (task) documents, the detection worker processes  *)
(*             (worker/agent_main.py) and the task half of the runner's    *)
(*             tick; TaskFairSpec adds the scheduling of the runner, the   *)
(*             workers and the clock                                       *)
(*   WsSpec    the fMP4 streaming service of the agents                    *)
(*             (infrastructure/streaming/agent_ws_fmp4_service.py)         *)
(* A specification moves the variables of its component and leaves the     *)
(* variables of the other components at their initial values (TaskSpec     *)
(* also moves the clock).                                                  *)
(***************************************************************************)
EXTENDS Integers, Sequences, FiniteSets, TLC

(* ---------------------------- bounds ----------------------------------- *)
MaxFrames == 3          \* handle_event_frame calls explored
MaxTime == 2            \* last value of the clock
MaxFps == 2             \* fps values explored: 1..MaxFps
MaxChunkDuration == 1   \* chunk_duration_seconds explored: 1..MaxChunkDuration
MaxTimeout == 1         \* session_timeout_seconds explored: 1..MaxTimeout
MaxLockCalls == 3       \* handle_event_frame calls explored lock by lock
MaxLockJobs == 1        \* jobs waiting on encode_queue explored lock by lock
MaxPubs == 2            \* CameraPublisher processes started
MaxFrameIndex == 2      \* frames published per connection
MaxWorkerDeaths == 1    \* detection workers that end on their own
\* detection worker processes started: the first one, one after each death,
\* and one relaunched after a worker expired behind the runner's back
MaxWorkers == MaxWorkerDeaths + 2
MaxStart == 1           \* start times explored: none, 1..MaxStart
MaxEncoders == 3        \* FFmpeg processes started by the streaming service
MaxHubIndex == 3       \* frames the publisher stores for the detection worker
MaxCycles == 3         \* detection cycles recorded
MaxRules == 2          \* rules of an agent
MaxPersons == 2        \* persons detected in a frame
MaxCars == 1           \* cars detected in a frame
MaxRuleTime == 3       \* seconds of rule evaluation explored
MaxSlots == 1          \* persons in the keypoints of a frame
MaxAccFrames == 5      \* frames given to the fall rule
MoovSize == 2          \* pieces of the moov box
MaxMedia == 2          \* pieces of media the encoder writes
MaxChunk == 3          \* pieces one read of the encoder output returns
MaxPeers == 3          \* peer connections a signaling client creates
MaxPaceTime == 7       \* last value of the pacer's clock, in half periods
MaxTicks == 4          \* loop iterations of the pacer recorded
MaxBcChunks == 2       \* chunks the broadcast loop reads from the encoder

Agents == {"a1"}
RuleIndexes == {0, 1}
Keys == Agents \X RuleIndexes      \* session_key = f"{agent_id}_{rule_index}"

NoSession == 0                     \* sessions.get(key) is None
NoJob == [session |-> 0]

VARIABLES
    clock,              \* now()
    running,            \* self.running
    session_timeout_seconds,
    chunk_duration_seconds,
    video_fps,
    objs,               \* every EventSession object ever constructed, by identity
    sessions,           \* self.sessions: key -> identity of its session, or NoSession
    session_order,      \* insertion order of the keys of self.sessions
    encode_queue,       \* self.encode_queue (queue.Queue(), FIFO, no maxsize)
    worker_pc,          \* position of _encode_worker
    encode_job,         \* the job _encode_worker holds
    bg_pc,              \* position of _background_worker
    expired_sessions,   \* its local list expired_sessions
    stop_pc,            \* position of stop()
    frame_seq,          \* number of handle_event_frame calls so far (frame identity)
    handed,             \* history: jobs put on encode_queue, in hand-off order
    emitted,            \* history: chunks the worker encoded and sent, in order
    notifications,      \* history: immediate notifications attempted, in order
    \* --- self.lock of the session manager, lock by lock (LockSpec)
    mutex,              \* the thread inside `with self.lock`, or "free"
    lk_pc,              \* position of each thread
    lk_key,             \* session_key of the handle_event_frame call of each caller
    lk_open,            \* keys present in self.sessions
    lk_jobs,            \* jobs waiting on encode_queue
    lk_calls,           \* handle_event_frame calls so far
    \* --- cameras, publishers and the frame store (HubSpec)
    cam_status,         \* status of the camera document: "absent", "active", "inactive"
    cam_uri,            \* its stream URL, "none" while there is no document
    pubs,               \* every CameraPublisher process ever started, by identity
    camera_publishers,  \* runner's camera_publishers: camera -> its process, or NoProc
    store,              \* shared_store[camera_id]: the latest envelope
    tick_report,        \* history: what the runner's last tick found for each camera
    \* --- agents, detection workers and the runner's task steps (TaskSpec)
    task_status,        \* status of the agent document, "absent" while there is none
    task_start,         \* its start time, 0 when it has none
    task_end,           \* its end time, 0 when it has none
    task_end_field,     \* the field that holds the end time: "end_time" or "end_at"
    workers,            \* every run_task_worker process ever started, by identity
    task_processes,     \* runner's task_processes: agent -> its process, or NoProc
    runner_pc,          \* position of the runner in the task half of its tick
    tasks_list,         \* the runner's tasks_list: agents returned by its find()
    runner_now,         \* the runner's current_time of this tick
    removed,            \* history: agents that have been removed (cancelled)
    \* --- the fMP4 streaming service (WsSpec)
    ws_states,          \* every _AgentStreamState ever constructed, by identity
    ws_streams,         \* self._streams: agent -> its state, or NoProc
    ws_attached,        \* history: agent -> the websockets add_viewer attached, not removed or dropped since
    \* --- one detection worker reading the frame store (DetSpec)
    det_published,      \* frame_index of the publisher that fills shared_store[camera_id]
    det_store,          \* shared_store[camera_id] as the detection worker sees it
    det_pc,             \* position of run_task_worker in its frame loop
    entry,              \* its local entry
    last_seen_hub_index,\* its local last_seen_hub_index, NoIndex for None
    det_cycles,         \* history: hub frame_index of every detection cycle, in order
    \* --- the rule engine of one detection worker (RuleSpec)
    rules,              \* loaded_rules of the worker: the agent's rule list, read once
    rule_state,         \* rule_state of the worker: rule -> last_matched_since, NoState while absent
    rule_now,           \* detections["ts"] of the frame being evaluated
    rule_det,           \* history: detections of the frame of the last evaluate_rules call
    rule_before,        \* history: rule_state before that call, or before the window start
    rule_results,       \* history: what each handler returned in that call
    rule_event,         \* history: what that call returned
    rule_window_hits,   \* history: rule -> evaluations since the window began that matched, up to 2
    rule_held_since,    \* history: rule -> since when its condition held on every frame, NoTime if not on the last
    \* --- the state of one accident_presence rule (AccSpec)
    history,            \* rule_state["history"]: slot -> metrics of the person last analysed there
    fall_motion_counters,\* rule_state["fall_motion_counters"], 0 while a slot has no entry
    static_lying_counters,\* rule_state["static_lying_counters"], 0 while a slot has no entry
    acc_frames,         \* frames given to evaluate_accident_presence so far
    acc_seen,           \* history: how the last frame showed each slot
    acc_fall_before,    \* history: fall_motion_counters before the last frame
    acc_trigger,        \* history: the trigger that put the slot in fallen_ids on the last frame
    acc_run,            \* history: consecutive frames, ending at the last one, with lying and height > 20
    \* --- the byte stream of one fMP4 encoder and its viewers (FmpSpec)
    fmp_started,        \* the agent has a stream state with a live FFmpeg process and its tasks
    fmp_lock,           \* self._lock: the viewer whose add_viewer holds it, or "free"
    fmp_pc,             \* position of the add_viewer call of each viewer
    fmp_viewers,        \* state.viewers
    fmp_pos,            \* bytes of the encoder output that _broadcast_loop has read
    mp4_parse_buf,      \* state._mp4_parse_buf
    init_accum,         \* state._init_accum
    init_segment,       \* state.init_segment, empty for None
    init_ready,         \* state._init_ready
    fmp_received,       \* history: the messages each websocket was sent, in order
    fmp_attached_at,    \* history: fmp_pos when the viewer joined state.viewers, -1 before
    fmp_sent,           \* history: the bytes given to the media broadcast, in order
    \* --- one signaling client (SigSpec)
    sig_pc,             \* position of connect_and_stream: "connect", "messages", "sleep"
    sig_running,        \* self._running
    sig_peers,          \* every RTCPeerConnection ever created, by identity
    sig_peer,           \* self.pc: the current peer, or NoProc for None
    connection_needs_reconnect,\* the local flag of the current connection
    sig_left,           \* history: how the message loop was left last
    sig_slept,          \* history: asyncio.sleep(reconnect_delay) ran since the loop was left
    \* --- the FPS pacer of one detection worker (PaceSpec)
    pace_pc,            \* position in the loop body: "check", "sleep", "update", "work"
    pace_now,           \* time.time(), in half frame periods
    next_tick,          \* next_tick of run_task_worker
    tick_starts,        \* history: the time every tick started at, in order
    \* --- the broadcast loop of one stream, send by send (BcSpec)
    bc_task,            \* the broadcast task of the stream: "running" or "done"
    bc_pc,              \* position of _broadcast_loop: "read" (awaiting a chunk) or "send" (awaiting send_bytes)
    bc_viewers,         \* state.viewers
    chunks_sent,        \* chunks_sent of _broadcast_loop
    bc_used,            \* the size of state.viewers when `for ws in state.viewers` began
    bc_visited,         \* the viewers the `for` has yielded for the current chunk
    bc_ws,              \* ws of the `for`: the viewer send_bytes is awaited for, "" if none
    disconnected,       \* disconnected of _broadcast_loop
    bc_delivered        \* history: viewer -> chunks it received

vars == <<clock, running, session_timeout_seconds, chunk_duration_seconds, video_fps,
          objs, sessions, session_order, encode_queue, worker_pc, encode_job,
          bg_pc, expired_sessions, stop_pc, frame_seq, handed, emitted, notifications,
          mutex, lk_pc, lk_key, lk_open, lk_jobs, lk_calls,
          cam_status, cam_uri, pubs, camera_publishers, store, tick_report,
          task_status, task_start, task_end, task_end_field, workers, task_processes,
          runner_pc, tasks_list, runner_now, removed, ws_states, ws_streams, ws_attached,
          det_published, det_store, det_pc, entry, last_seen_hub_index, det_cycles,
          rules, rule_state, rule_now, rule_det, rule_before, rule_results, rule_event,
          rule_window_hits, rule_held_since,
          history, fall_motion_counters, static_lying_counters, acc_frames, acc_seen, acc_fall_before, acc_trigger, acc_run,
          fmp_started, fmp_lock, fmp_pc, fmp_viewers, fmp_pos, mp4_parse_buf, init_accum, init_segment, init_ready, fmp_received, fmp_attached_at, fmp_sent,
          sig_pc, sig_running, sig_peers, sig_peer, connection_needs_reconnect, sig_left, sig_slept,
          pace_pc, pace_now, next_tick, tick_starts,
          bc_task, bc_pc, bc_viewers, chunks_sent, bc_used, bc_visited, bc_ws, disconnected, bc_delivered>>

lockVars == <<mutex, lk_pc, lk_key, lk_open, lk_jobs, lk_calls>>

hubVars == <<cam_status, cam_uri, pubs, camera_publishers, store, tick_report>>

\* the variables of the components other than the session manager
taskVars == <<task_status, task_start, task_end, task_end_field, workers, task_processes,
              runner_pc, tasks_list, runner_now, removed>>

wsVars == <<ws_states, ws_streams, ws_attached>>

detVars == <<det_published, det_store, det_pc, entry, last_seen_hub_index, det_cycles>>
ruleVars == <<rules, rule_state, rule_now, rule_det, rule_before, rule_results, rule_event,
              rule_window_hits, rule_held_since>>
accVars == <<history, fall_motion_counters, static_lying_counters, acc_frames, acc_seen, acc_fall_before, acc_trigger, acc_run>>
fmpVars == <<fmp_started, fmp_lock, fmp_pc, fmp_viewers, fmp_pos, mp4_parse_buf, init_accum, init_segment, init_ready, fmp_received, fmp_attached_at, fmp_sent>>
sigVars == <<sig_pc, sig_running, sig_peers, sig_peer, connection_needs_reconnect, sig_left, sig_slept>>
paceVars == <<pace_pc, pace_now, next_tick, tick_starts>>
bcVars == <<bc_task, bc_pc, bc_viewers, chunks_sent, bc_used, bc_visited, bc_ws, disconnected, bc_delivered>>

extVars == <<detVars, ruleVars, accVars, fmpVars, sigVars, paceVars, bcVars>>

nonSessionVars == <<lockVars, hubVars, taskVars, wsVars, extVars>>

cfgVars == <<session_timeout_seconds, chunk_duration_seconds, video_fps>>

(* ------------------------- pure helpers -------------------------------- *)

\* (mutant) the capacity rounded up instead of truncated
RingMaxlenCeil(chunk_frame_limit) == (chunk_frame_limit * 11 + 9) \div 10

\* int(chunk_frame_limit * 1.1): Python's int() truncates toward zero
RingMaxlen(chunk_frame_limit) == (chunk_frame_limit * 11) \div 10

\* (mutant) a full ring refuses the new frame instead of discarding the oldest
DequeAppendKeepOldest(q, x, m) ==
    IF Len(q) >= m THEN q ELSE Append(q, x)

\* collections.deque(maxlen=m).append(x): a full deque discards from the left
DequeAppend(q, x, m) ==
    IF m = 0 THEN q
    ELSE IF Len(q) >= m THEN Append(Tail(q), x)
    ELSE Append(q, x)

\* EventSession(...) followed by __post_init__
NewSession(key, current_time, fps) ==
    LET limit == fps * chunk_duration_seconds IN
    [ key |-> key,
      session_id |-> <<key[1], key[2], current_time>>,
      state |-> "ACTIVE",
      start_time |-> current_time,
      last_event_time |-> current_time,
      chunk_start_time |-> current_time,
      chunk_number |-> 0,
      frames |-> << >>,
      frame_timestamps |-> << >>,
      fps |-> fps,
      chunk_duration_seconds |-> chunk_duration_seconds,
      chunk_frame_limit |-> limit,
      maxlen |-> RingMaxlen(limit),
      arrived |-> << >> ]      \* history: frames appended since the last clear

\* (mutant) _enqueue_chunk_encode without its `already encoding` early return
EnqueueChunkEncodeNoGuard(sid, s, is_final) ==
    << [s EXCEPT !.state = "ENCODING"],
       << [ session |-> sid,
            frames |-> s.frames,
            frame_timestamps |-> s.frame_timestamps,
            is_final |-> is_final,
            chunk_number |-> s.chunk_number ] >> >>

\* _enqueue_chunk_encode(session, is_final): <<session', jobs put on the queue>>
EnqueueChunkEncode(sid, s, is_final) ==
    IF s.state = "ENCODING"
    THEN <<s, << >> >>
    ELSE << [s EXCEPT !.state = "ENCODING"],
            << [ session |-> sid,
                 frames |-> s.frames,
                 frame_timestamps |-> s.frame_timestamps,
                 is_final |-> is_final,
                 chunk_number |-> s.chunk_number ] >> >>

\* _close_session(session, flush_remaining): <<session', jobs put on the queue>>
CloseSession(sid, s, flush_remaining) ==
    IF s.state = "CLOSING"
    THEN <<s, << >> >>
    ELSE IF flush_remaining /\ Len(s.frames) > 0
    THEN EnqueueChunkEncode(sid, s, TRUE)
    ELSE << [s EXCEPT !.state = "CLOSING"], << >> >>

\* history record of a job handed to the encoder; chunk_start_time is the
\* session's chunk_start_time when _enqueue_chunk_encode copied the buffer
HandedRec(job) ==
    [ session |-> job.session, chunk_number |-> job.chunk_number,
      is_final |-> job.is_final, frames |-> job.frames,
      chunk_start_time |-> objs[job.session].chunk_start_time ]

\* Queue.unfinished_tasks: put() counts up, task_done() counts down
UnfinishedTasks == Len(encode_queue) + (IF worker_pc = "encode" THEN 1 ELSE 0)

(* ------------------- initial values of the components ------------------ *)
Callers == {"caller1", "caller2"}          \* threads calling handle_event_frame
Threads == Callers \cup {"worker", "sweeper"}

\* EventSessionManager.__init__ and start(): nobody holds self.lock
LockInit ==
    /\ mutex = "free"
    /\ lk_pc = [t \in Threads |->
                 IF t \in Callers THEN "idle" ELSE IF t = "worker" THEN "get" ELSE "sleep"]
    /\ lk_key = [t \in Callers |-> <<"a1", 0>>]
    /\ lk_open = {}
    /\ lk_jobs = 0
    /\ lk_calls = 0

Cameras == {"c1"}
CameraOrder == <<"c1">>                    \* order of the documents in a find()
Urls == {"u1", "u2"}
NoProc == 0                                \* no entry in the registry
NoEnvelope == [kind |-> "none", frame_index |-> 0]

\* runner main(): no camera document, camera_publishers = {}, an empty store
HubInit ==
    /\ cam_status = [c \in Cameras |-> "absent"]
    /\ cam_uri = [c \in Cameras |-> "none"]
    /\ pubs = << >>
    /\ camera_publishers = [c \in Cameras |-> NoProc]
    /\ store = [c \in Cameras |-> NoEnvelope]
    /\ tick_report = [c \in Cameras |-> "none"]

AgentOrder == <<"a1">>                     \* find().sort("created_at", 1)

\* runner main(): no agent document, task_processes = {}
TaskInit ==
    /\ task_status = [a \in Agents |-> "absent"]
    /\ task_start = [a \in Agents |-> 0]
    /\ task_end = [a \in Agents |-> 0]
    /\ task_end_field = [a \in Agents |-> "end_time"]
    /\ workers = << >>
    /\ task_processes = [a \in Agents |-> NoProc]
    /\ runner_pc = "read"
    /\ tasks_list = {}
    /\ runner_now = 0
    /\ removed = {}

Viewers == {"v1", "v2"}                    \* websockets

\* AgentWsFmp4Service.__init__: self._streams = {}
WsInit ==
    /\ ws_states = << >>
    /\ ws_streams = [a \in Agents |-> NoProc]
    /\ ws_attached = [a \in Agents |-> {}]


NoIndex == -1                              \* last_seen_hub_index = None

\* run_task_worker entering `while True` of the continuous mode (or a
\* patrol window): last_seen_hub_index = None, nothing stored yet
DetInit ==
    /\ det_published = 0
    /\ det_store = NoEnvelope
    /\ det_pc = "acquire"
    /\ entry = NoEnvelope
    /\ last_seen_hub_index = NoIndex
    /\ det_cycles = << >>


Durations == {-1, 0, 2}                    \* duration_seconds of a rule
NoTime == -1                               \* last_matched_since = None
NoState == -2                              \* no entry for the rule index in state
Classes == {"person", "car"}               \* class names the detector reports
\* detections["classes"] of a frame, as the count of every class
Frames == {[person |-> p, car |-> c] : p \in 0..MaxPersons, c \in 0..MaxCars}
NoDetections == [person |-> -1, car |-> -1] \* evaluate_rules not called yet
NoLabel == [count |-> -1, class |-> "", text |-> ""]   \* a handler returned None
NoEvent == [label |-> NoLabel, rule_index |-> -1]

\* the rule documents an agent can carry; "line_crossing" has no handler
RuleDocs ==
    {[type |-> "class_presence", class |-> c, min_count |-> 1, duration_seconds |-> d] :
         c \in Classes, d \in Durations}
    \cup {[type |-> "count_at_least", class |-> "person", min_count |-> 2, duration_seconds |-> d] :
              d \in Durations}
    \cup {[type |-> "class_count", class |-> "person", min_count |-> 1, duration_seconds |-> 0],
          [type |-> "line_crossing", class |-> "person", min_count |-> 1, duration_seconds |-> 0]}

\* the rule lists: every list of 1..MaxRules rule documents
RuleLists == UNION {[1..n -> RuleDocs] : n \in 1..MaxRules}

\* run_task_worker before its first frame: rule_state = {}
RuleReady ==
    /\ rule_state = [i \in 1..MaxRules |-> NoState]
    /\ rule_now = 0
    /\ rule_det = NoDetections
    /\ rule_before = [i \in 1..MaxRules |-> NoState]
    /\ rule_results = [i \in 1..MaxRules |-> "not_evaluated"]
    /\ rule_event = NoEvent
    /\ rule_window_hits = [i \in 1..MaxRules |-> 0]
    /\ rule_held_since = [i \in 1..MaxRules |-> NoTime]

\* run_task_worker: loaded_rules = task.get("rules"), any rule list
RuleInit == rules \in RuleLists /\ RuleReady

\* the worker of an agent with one class_presence rule and no duration
RuleIdle ==
    /\ rules = <<[type |-> "class_presence", class |-> "person", min_count |-> 1,
                  duration_seconds |-> 0]>>
    /\ RuleReady


Slots == 0..(MaxSlots - 1)                 \* indexes into detections["keypoints"]
NoMetrics == [hip_y |-> -1, height |-> -1] \* history.get(idx) is None

\* the rule state of an accident_presence rule before its first frame
AccInit ==
    /\ history = [idx \in Slots |-> NoMetrics]
    /\ fall_motion_counters = [idx \in Slots |-> 0]
    /\ static_lying_counters = [idx \in Slots |-> 0]
    /\ acc_frames = 0
    /\ acc_seen = [idx \in Slots |-> "absent"]
    /\ acc_fall_before = [idx \in Slots |-> 0]
    /\ acc_trigger = [idx \in Slots |-> "none"]
    /\ acc_run = [idx \in Slots |-> 0]


\* AgentWsFmp4Service.__init__: no stream, nobody holds the lock
FmpInit ==
    /\ fmp_started = FALSE
    /\ fmp_lock = "free"
    /\ fmp_pc = [v \in Viewers |-> "idle"]
    /\ fmp_viewers = {}
    /\ fmp_pos = 0
    /\ mp4_parse_buf = << >>
    /\ init_accum = << >>
    /\ init_segment = << >>
    /\ init_ready = FALSE
    /\ fmp_received = [v \in Viewers |-> << >>]
    /\ fmp_attached_at = [v \in Viewers |-> -1]
    /\ fmp_sent = << >>


\* AWSSignalingClient.__init__ and the entry of connect_and_stream
SigInit ==
    /\ sig_pc = "connect"
    /\ sig_running = FALSE
    /\ sig_peers = << >>
    /\ sig_peer = NoProc
    /\ connection_needs_reconnect = FALSE
    /\ sig_left = "none"
    /\ sig_slept = FALSE


min_interval == 2                          \* 1.0 / max(1, fps), in half frame periods

\* run_task_worker before its loop: next_tick = time.time()
PaceInit ==
    /\ pace_pc = "check"
    /\ pace_now = 0
    /\ next_tick = 0
    /\ tick_starts = << >>


\* a stream with one viewer attached and the init segment sent: the broadcast
\* task awaits the next chunk
BcInit ==
    /\ bc_task = "running"
    /\ bc_pc = "read"
    /\ bc_viewers = {"v1"}
    /\ chunks_sent = 0
    /\ bc_used = 0
    /\ bc_visited = {}
    /\ bc_ws = ""
    /\ disconnected = {}
    /\ bc_delivered = [v \in Viewers |-> 0]

\* the components below at rest
ExtInit == DetInit /\ RuleIdle /\ AccInit /\ FmpInit /\ SigInit /\ PaceInit /\ BcInit
nonRuleIdle == DetInit /\ AccInit /\ FmpInit /\ SigInit /\ PaceInit /\ BcInit

(* ----------------------------- Init ------------------------------------ *)
\* get_event_session_manager(): EventSessionManager() followed by start()
Init ==
    /\ clock = 0
    /\ running = TRUE
    /\ session_timeout_seconds \in 1..MaxTimeout
    /\ chunk_duration_seconds \in 1..MaxChunkDuration
    /\ video_fps = MaxFps           \* EVENT_VIDEO_FPS; callers pass fps or None
    /\ objs = << >>
    /\ sessions = [k \in Keys |-> NoSession]
    /\ session_order = << >>
    /\ encode_queue = << >>
    /\ worker_pc = "loop"
    /\ encode_job = NoJob
    /\ bg_pc = "sleep"
    /\ expired_sessions = << >>
    /\ stop_pc = "idle"
    /\ frame_seq = 0
    /\ handed = << >>
    /\ emitted = << >>
    /\ notifications = << >>
    /\ LockInit
    /\ HubInit
    /\ TaskInit
    /\ WsInit
    /\ ExtInit

\* the session manager at rest: the initial state of the other specifications
SessionIdle ==
    /\ clock = 0
    /\ running = TRUE
    /\ session_timeout_seconds = 1
    /\ chunk_duration_seconds = 1
    /\ video_fps = MaxFps
    /\ objs = << >>
    /\ sessions = [k \in Keys |-> NoSession]
    /\ session_order = << >>
    /\ encode_queue = << >>
    /\ worker_pc = "loop"
    /\ encode_job = NoJob
    /\ bg_pc = "sleep"
    /\ expired_sessions = << >>
    /\ stop_pc = "idle"
    /\ frame_seq = 0
    /\ handed = << >>
    /\ emitted = << >>
    /\ notifications = << >>

sessionVars == <<clock, running, cfgVars, objs, sessions, session_order, encode_queue,
                 worker_pc, encode_job, bg_pc, expired_sessions, stop_pc, frame_seq,
                 handed, emitted, notifications>>

coreVars == <<sessionVars, lockVars, hubVars, taskVars, wsVars>>
\* the session manager, the lock, the hub, the runner and the fMP4 service at rest
CoreIdle == SessionIdle /\ LockInit /\ HubInit /\ TaskInit /\ WsInit

nonLockVars == <<sessionVars, hubVars, taskVars, wsVars, extVars>>
nonHubVars == <<sessionVars, lockVars, taskVars, wsVars, extVars>>
nonWsVars == <<sessionVars, lockVars, hubVars, taskVars, extVars>>
\* the task specification moves the clock of the session manager as well
nonTaskVars == <<running, cfgVars, objs, sessions, session_order, encode_queue,
                 worker_pc, encode_job, bg_pc, expired_sessions, stop_pc, frame_seq,
                 handed, emitted, notifications, lockVars, hubVars, wsVars, extVars>>
\* everything but one of the components below
nonDetVars == <<coreVars, ruleVars, accVars, fmpVars, sigVars, paceVars, bcVars>>
nonRuleVars == <<coreVars, detVars, accVars, fmpVars, sigVars, paceVars, bcVars>>
nonAccVars == <<coreVars, detVars, ruleVars, fmpVars, sigVars, paceVars, bcVars>>
nonFmpVars == <<coreVars, detVars, ruleVars, accVars, sigVars, paceVars, bcVars>>
nonSigVars == <<coreVars, detVars, ruleVars, accVars, fmpVars, paceVars, bcVars>>
nonPaceVars == <<coreVars, detVars, ruleVars, accVars, fmpVars, sigVars, bcVars>>
nonBcVars == <<coreVars, detVars, ruleVars, accVars, fmpVars, sigVars, paceVars>>

(* --------------------------- the clock --------------------------------- *)
Tick ==
    /\ clock < MaxTime
    /\ clock' = clock + 1
    /\ UNCHANGED <<nonSessionVars, running, cfgVars, objs, sessions, session_order, encode_queue,
                   worker_pc, encode_job, bg_pc, expired_sessions, stop_pc,
                   frame_seq, handed, emitted, notifications>>

(* ----------------------- handle_event_frame ---------------------------- *)
\* _send_immediate_notification: the send is attempted once; any exception is
\* caught and logged, so control always returns to handle_event_frame
SendImmediateNotification(sid, s, frame, ok) ==
    Append(notifications,
           [ session |-> sid, session_id |-> s.session_id, frame |-> frame,
             ok |-> ok ])

\* (mutant) the runtime split forgets `session.chunk_number += 1`
SplitChunkNoIncrement(sid, s, current_time) ==
    LET enq == EnqueueChunkEncode(sid, s, FALSE)
    IN << [enq[1] EXCEPT !.frames = << >>,
                         !.frame_timestamps = << >>,
                         !.arrived = << >>,
                         !.chunk_start_time = current_time],
          enq[2] >>

\* (mutant) the runtime split forgets `session.frames.clear()`
SplitChunkKeepFrames(sid, s, current_time) ==
    LET enq == EnqueueChunkEncode(sid, s, FALSE)
    IN << [enq[1] EXCEPT !.chunk_start_time = current_time,
                         !.chunk_number = @ + 1],
          enq[2] >>

\* the runtime split (lines 261-272): <<session', jobs put on the queue>>
SplitChunk(sid, s, current_time) ==
    LET enq == EnqueueChunkEncode(sid, s, FALSE)
    IN << [enq[1] EXCEPT !.frames = << >>,
                         !.frame_timestamps = << >>,
                         !.arrived = << >>,
                         !.chunk_start_time = current_time,
                         !.chunk_number = @ + 1],
          enq[2] >>

\* the part of handle_event_frame after the session lookup (lines 246-283)
BufferFrame(sid, s, frame, current_time) ==
    IF s.state \notin {"ACTIVE", "ENCODING"}
    THEN <<s, << >> >>
    ELSE
      LET frame_count == Len(s.frames)
          chunk_duration == current_time - s.chunk_start_time
          should_split == \/ frame_count >= s.chunk_frame_limit
                          \/ chunk_duration >= s.chunk_duration_seconds
          split == should_split /\ s.state = "ACTIVE" /\ frame_count > 0
          r == IF split THEN SplitChunk(sid, s, current_time) ELSE <<s, << >> >>
          s1 == r[1]
          s2 == [s1 EXCEPT !.frames = DequeAppend(@, frame, s1.maxlen),
                           !.frame_timestamps = DequeAppend(@, current_time, s1.maxlen),
                           !.arrived = Append(@, frame),
                           !.last_event_time = current_time]
      IN <<s2, r[2]>>

\* (mutant) the notification is sent for every event frame
NotifyOnEveryFrame(isNew, sid, s, frame, ok) ==
    SendImmediateNotification(sid, s, frame, ok)

\* (mutant) the notification is suppressed when the key was notified before
NotifyOncePerKey(isNew, sid, s, frame, ok) ==
    IF isNew /\ \A i \in 1..Len(notifications) :
                    objs[notifications[i].session].key # s.key
    THEN SendImmediateNotification(sid, s, frame, ok)
    ELSE notifications

\* the `if session is None:` block sends the notification (lines 223-244)
NotifyOnOpen(isNew, sid, s, frame, ok) ==
    IF isNew THEN SendImmediateNotification(sid, s, frame, ok) ELSE notifications

HandleEventFrame(key, fps, ok) ==
    /\ frame_seq < MaxFrames
    /\ LET frame == frame_seq + 1
           current_time == clock
           isNew == sessions[key] = NoSession
           sid == IF isNew THEN Len(objs) + 1 ELSE sessions[key]
           s0 == IF isNew
                 THEN NewSession(key, current_time, IF fps = 0 THEN video_fps ELSE fps)
                 ELSE objs[sid]
           r == BufferFrame(sid, s0, frame, current_time)
       IN /\ frame_seq' = frame
          /\ objs' = IF isNew THEN Append(objs, r[1]) ELSE [objs EXCEPT ![sid] = r[1]]
          /\ sessions' = [sessions EXCEPT ![key] = sid]
          /\ session_order' = IF isNew THEN Append(session_order, key) ELSE session_order
          /\ notifications' = NotifyOnOpen(isNew, sid, s0, frame, ok)
          /\ encode_queue' = encode_queue \o r[2]
          /\ handed' = handed \o [i \in 1..Len(r[2]) |-> HandedRec(r[2][i])]
    /\ UNCHANGED <<nonSessionVars, clock, running, cfgVars, worker_pc, encode_job, bg_pc,
                   expired_sessions, stop_pc, emitted>>

(* --------------------------- _encode_worker ---------------------------- *)
\* `while self.running:` at the top of the loop
WorkerLoop ==
    /\ worker_pc = "loop"
    /\ worker_pc' = IF running THEN "get" ELSE "stopped"
    /\ UNCHANGED <<nonSessionVars, clock, running, cfgVars, objs, sessions, session_order, encode_queue,
                   encode_job, bg_pc, expired_sessions, stop_pc, frame_seq, handed,
                   emitted, notifications>>

\* encode_queue.get(timeout=1.0) returns a job
WorkerGet ==
    /\ worker_pc = "get"
    /\ encode_queue # << >>
    /\ encode_job' = Head(encode_queue)
    /\ encode_queue' = Tail(encode_queue)
    /\ worker_pc' = "encode"
    /\ UNCHANGED <<nonSessionVars, clock, running, cfgVars, objs, sessions, session_order, bg_pc,
                   expired_sessions, stop_pc, frame_seq, handed, emitted, notifications>>

\* encode_queue.get(timeout=1.0) raises Empty: `except: continue`
WorkerGetTimeout ==
    /\ worker_pc = "get"
    /\ encode_queue = << >>
    /\ worker_pc' = "loop"
    /\ UNCHANGED <<nonSessionVars, clock, running, cfgVars, objs, sessions, session_order, encode_queue,
                   encode_job, bg_pc, expired_sessions, stop_pc, frame_seq, handed,
                   emitted, notifications>>

\* the record send_event_video_to_kafka is called with (lines 370-372, 450-465)
ChunkRecord(job, s) ==
    [ session |-> job.session,
      session_id |-> s.session_id,
      chunk_number |-> job.chunk_number,
      is_final |-> job.is_final,
      frames |-> job.frames,
      fps |-> s.fps,
      chunk_start_time |-> s.chunk_start_time ]

\* lines 351-504: encode the job's frames and hand the chunk to
\* send_event_video_to_kafka, then task_done().  An encoder or send failure is
\* only logged and changes nothing the manager keeps, so `emitted` records the
\* chunk the worker produced.
WorkerEncode ==
    /\ worker_pc = "encode"
    /\ emitted' = IF encode_job.frames # << >>
                  THEN Append(emitted, ChunkRecord(encode_job, objs[encode_job.session]))
                  ELSE emitted
    /\ worker_pc' = "update"
    /\ UNCHANGED <<nonSessionVars, clock, running, cfgVars, objs, sessions, session_order, encode_queue,
                   encode_job, bg_pc, expired_sessions, stop_pc, frame_seq, handed,
                   notifications>>

\* the session state after the worker's locked update (lines 359-361, 507-512)
WorkerNextState(s, job) ==
    IF s.state = "ENCODING"
    THEN IF job.frames # << >> /\ job.is_final THEN "CLOSING" ELSE "ACTIVE"
    ELSE s.state

WorkerUpdate ==
    /\ worker_pc = "update"
    /\ objs' = [objs EXCEPT ![encode_job.session].state =
                                WorkerNextState(objs[encode_job.session], encode_job)]
    /\ encode_job' = NoJob
    /\ worker_pc' = "loop"
    /\ UNCHANGED <<nonSessionVars, clock, running, cfgVars, sessions, session_order, encode_queue,
                   bg_pc, expired_sessions, stop_pc, frame_seq, handed, emitted,
                   notifications>>

(* ------------------------- _background_worker -------------------------- *)
\* a session the sweep selects (lines 541-548)
IsExpired(s, current_time) ==
    /\ s.state \in {"ACTIVE", "ENCODING"}
    /\ current_time - s.last_event_time >= session_timeout_seconds

\* bg_pc = "sleep": in time.sleep(check_interval_seconds), entered from
\* `while self.running:`.  The sleep ends: `if not self.running: break`, else the
\* locked scan (lines 533-548); with nothing expired the loop goes back to sleep
\* (a stop seen at the top of the loop or after the sleep ends the thread alike).
BgScan ==
    /\ bg_pc = "sleep"
    /\ IF ~running
       THEN /\ bg_pc' = "stopped"
            /\ UNCHANGED expired_sessions
       ELSE LET expired == SelectSeq(session_order,
                                     LAMBDA k : IsExpired(objs[sessions[k]], clock))
            IN /\ expired_sessions' = expired
               /\ bg_pc' = IF expired = << >> THEN "sleep" ELSE "close"
    /\ UNCHANGED <<nonSessionVars, clock, running, cfgVars, objs, sessions, session_order, encode_queue,
                   worker_pc, encode_job, stop_pc, frame_seq, handed, emitted,
                   notifications>>

\* one iteration of `for session_key in expired_sessions:` (lines 551-556)
BgClose ==
    /\ bg_pc = "close"
    /\ expired_sessions # << >>
    /\ LET key == Head(expired_sessions)
           sid == sessions[key]
       IN /\ expired_sessions' = Tail(expired_sessions)
          /\ IF sid = NoSession
             THEN UNCHANGED <<objs, sessions, session_order, encode_queue, handed>>
             ELSE LET r == CloseSession(sid, objs[sid], TRUE)
                  IN /\ objs' = [objs EXCEPT ![sid] = r[1]]
                     /\ encode_queue' = encode_queue \o r[2]
                     /\ handed' = handed \o [i \in 1..Len(r[2]) |-> HandedRec(r[2][i])]
                     /\ sessions' = [sessions EXCEPT ![key] = NoSession]
                     /\ session_order' = SelectSeq(session_order, LAMBDA k : k # key)
          /\ bg_pc' = IF Tail(expired_sessions) = << >> THEN "sleep" ELSE "close"
    /\ UNCHANGED <<nonSessionVars, clock, running, cfgVars, worker_pc, encode_job, stop_pc,
                   frame_seq, emitted, notifications>>

(* ------------------------------- stop ---------------------------------- *)
\* self.running = False; then background_thread.join(timeout=5.0), which returns
\* when the sweeper has exited or when the 5 s are over
StopBegin ==
    /\ stop_pc = "idle"
    /\ running' = FALSE
    /\ stop_pc' = "flush"
    /\ UNCHANGED <<nonSessionVars, clock, cfgVars, objs, sessions, session_order, encode_queue,
                   worker_pc, encode_job, bg_pc, expired_sessions, frame_seq, handed,
                   emitted, notifications>>

\* the flush loop of stop() over `keys` (lines 172-177): <<objs', jobs put>>
RECURSIVE FlushAll(_, _, _)
FlushAll(keys, os, jobs) ==
    IF keys = << >> THEN <<os, jobs>>
    ELSE LET sid == sessions[Head(keys)]
             s == os[sid]
         IN IF s.state = "ACTIVE"
            THEN LET r == CloseSession(sid, s, TRUE)
                 IN FlushAll(Tail(keys), [os EXCEPT ![sid] = r[1]], jobs \o r[2])
            ELSE FlushAll(Tail(keys), os, jobs)

StopFlush ==
    /\ stop_pc = "flush"
    /\ LET r == FlushAll(session_order, objs, << >>)
       IN /\ objs' = r[1]
          /\ encode_queue' = encode_queue \o r[2]
          /\ handed' = handed \o [i \in 1..Len(r[2]) |-> HandedRec(r[2][i])]
    /\ stop_pc' = "queue_join"
    /\ UNCHANGED <<nonSessionVars, clock, running, cfgVars, sessions, session_order, worker_pc,
                   encode_job, bg_pc, expired_sessions, frame_seq, emitted,
                   notifications>>

\* encode_queue.join() returns once every job put has been marked task_done();
\* then encode_worker_thread.join(timeout=10.0) and stop() returns
StopQueueJoin ==
    /\ stop_pc = "queue_join"
    /\ UnfinishedTasks = 0
    /\ stop_pc' = "done"
    /\ UNCHANGED <<nonSessionVars, clock, running, cfgVars, objs, sessions, session_order, encode_queue,
                   worker_pc, encode_job, bg_pc, expired_sessions, frame_seq, handed,
                   emitted, notifications>>

(* ------------------------- the specification --------------------------- *)
Next ==
    \/ Tick
    \/ \E key \in Keys, fps \in 0..MaxFps, ok \in BOOLEAN : HandleEventFrame(key, fps, ok)
    \/ WorkerLoop
    \/ WorkerGet
    \/ WorkerGetTimeout
    \/ WorkerEncode
    \/ WorkerUpdate
    \/ BgScan
    \/ BgClose
    \/ StopBegin
    \/ StopFlush
    \/ StopQueueJoin

Spec == Init /\ [][Next]_vars

(* ======================== properties of the sessions ==================== *)
SessionIds == 1..Len(objs)

HandedOf(sid) == SelectSeq(handed, LAMBDA h : h.session = sid)
EmittedOf(sid) == SelectSeq(emitted, LAMBDA e : e.session = sid)
QueuedOf(sid) == SelectSeq(encode_queue, LAMBDA j : j.session = sid)

\* the worker holds a job of the session (being encoded, or encoded and the
\* session state not yet updated)
WorkerHolds(sid) == worker_pc \in {"encode", "update"} /\ encode_job.session = sid

\* jobs of the session that are queued or held by the worker
InFlight(sid) == Len(QueuedOf(sid)) + (IF WorkerHolds(sid) THEN 1 ELSE 0)

InMap(sid) == sessions[objs[sid].key] = sid

\* nothing can be produced for the session any more: it is out of the map and
\* none of its jobs is queued or held
Gone(sid) == ~InMap(sid) /\ InFlight(sid) = 0

FinalsOf(seq) == SelectSeq(seq, LAMBDA e : e.is_final)

Suffix(q, n) == SubSeq(q, Len(q) - n + 1, Len(q))
Min(a, b) == IF a <= b THEN a ELSE b

\* C1 (as claimed): every session ends with exactly one is_final chunk produced,
\* and that chunk is the last one produced for it.  Checked where the session
\* can produce nothing more: once it is gone, the final chunk must be there.
C1_ExactlyOneFinalChunk ==
    \A sid \in SessionIds :
        Gone(sid) =>
            LET es == EmittedOf(sid)
            IN /\ Len(FinalsOf(es)) = 1
               /\ es[Len(es)].is_final

\* C2: per session, the chunk numbers handed to the encoder are 0, 1, ..., k in
\* hand-off order, and the worker produces the chunks in that same order (what
\* it has produced so far is a prefix of what was handed off).
C2_ChunkNumbersInOrder ==
    \A sid \in SessionIds :
        LET hs == HandedOf(sid)
            es == EmittedOf(sid)
        IN /\ \A i \in 1..Len(hs) : hs[i].chunk_number = i - 1
           /\ Len(es) <= Len(hs)
           /\ \A i \in 1..Len(es) : /\ es[i].chunk_number = hs[i].chunk_number
                                    /\ es[i].is_final = hs[i].is_final
                                    /\ es[i].frames = hs[i].frames

\* C2 witness: a session whose chunks 0 and 1 were both handed off and produced
C2_Witness ==
    \E sid \in SessionIds : Len(EmittedOf(sid)) >= 2

\* C3: each session has at most one encode job queued or held by the worker.
C3_OneJobInFlight ==
    \A sid \in SessionIds : InFlight(sid) <= 1

\* C3 witness: a job of the session is in flight while frames keep arriving past
\* the split threshold, and no second job was enqueued
C3_Witness ==
    \E sid \in SessionIds :
        /\ InFlight(sid) = 1
        /\ objs[sid].state = "ENCODING"
        /\ Len(objs[sid].arrived) > objs[sid].chunk_frame_limit

\* C4 (as claimed): while the job of a session's final chunk is queued or being
\* encoded, the session is still in the session map.
C4_InMapUntilFinalEncoded ==
    \A sid \in SessionIds :
        (\/ \E i \in 1..Len(encode_queue) :
                encode_queue[i].session = sid /\ encode_queue[i].is_final
         \/ worker_pc = "encode" /\ encode_job.session = sid /\ encode_job.is_final)
        => InMap(sid)

\* a final job that stop() put on the queue: its session is still in the map
\* (the sweeper deletes the sessions it closes, stop() does not)
StopFinalQueued ==
    \E i \in 1..Len(encode_queue) :
        encode_queue[i].is_final /\ InMap(encode_queue[i].session)

\* C5 (as claimed): the final chunks stop() enqueues are eventually encoded.
\* Checked as its safety part: while such a job waits in the queue, the encode
\* worker has not exited (an exited worker never encodes it).
C5_StopFinalChunksEncoded ==
    StopFinalQueued => worker_pc # "stopped"

\* C6 (as claimed): the ring never holds more than its capacity, and the
\* capacity is the ceiling of fps * chunk_duration_s * 1.1.
C6_RingCapacityIsCeiling ==
    \A sid \in SessionIds :
        LET s == objs[sid]
            n == s.fps * s.chunk_duration_seconds
        IN /\ Len(s.frames) <= s.maxlen
           /\ 10 * s.maxlen >= 11 * n
           /\ 10 * (s.maxlen - 1) < 11 * n

\* the rates and chunk durations of the capacity claim: fps in [1, 60], and
\* durations up to the default of 300 s for each duration the model explores
FpsRange == 1..60
ChunkDurationRange == 1..(300 * MaxChunkDuration)

\* the capacity __post_init__ computes is the rounded-down value over that range
RingMaxlenRoundsDown ==
    \A f \in FpsRange : \A d \in ChunkDurationRange :
        LET m == RingMaxlen(f * d)
        IN 10 * m <= 11 * (f * d) /\ 10 * (m + 1) > 11 * (f * d)

\* C6 (amended): the ring never holds more than its capacity, and the capacity
\* is fps * chunk_duration_s * 1.1 rounded down (the largest integer not above),
\* for the sessions the manager creates and over the whole range of rates.
C6_RingCapacityIsFloor ==
    /\ RingMaxlenRoundsDown
    /\ \A sid \in SessionIds :
        LET s == objs[sid]
            n == s.fps * s.chunk_duration_seconds
        IN /\ Len(s.frames) <= s.maxlen
           /\ Len(s.frame_timestamps) <= s.maxlen
           /\ s.chunk_frame_limit = n
           /\ 10 * s.maxlen <= 11 * n
           /\ 10 * (s.maxlen + 1) > 11 * n

\* C6 witness: a full ring that has evicted a frame, of a capacity where
\* rounding down and rounding up differ
C6_Witness ==
    \E sid \in SessionIds :
        LET s == objs[sid]
        IN /\ Len(s.frames) = s.maxlen
           /\ Len(s.arrived) > s.maxlen
           /\ 10 * s.maxlen # 11 * s.chunk_frame_limit

\* C7: the ring holds exactly the last min(n, capacity) of the n frames appended
\* to the current chunk, in arrival order, and the frame passed last is its
\* newest element.
C7_OldestEvicted ==
    \A sid \in SessionIds :
        LET s == objs[sid]
            n == Len(s.arrived)
        IN /\ s.frames = Suffix(s.arrived, Min(n, s.maxlen))
           /\ n > 0 => /\ s.frames # << >>
                       /\ s.frames[Len(s.frames)] = s.arrived[n]

\* C7 witness: the encoder makes no progress (the split job is still queued)
\* and the ring has overflowed
C7_Witness ==
    \E sid \in SessionIds :
        /\ objs[sid].state = "ENCODING"
        /\ Len(QueuedOf(sid)) = 1
        /\ Len(objs[sid].arrived) > objs[sid].maxlen

\* C8 (as claimed): the encode queue is bounded by a fixed capacity (the single
\* slot the specification names); a job arriving at a full queue is dropped.
C8_EncodeQueueBounded ==
    Len(encode_queue) <= 1

\* C9: one immediate notification is attempted per session opened, when it
\* opens, and none for later frames; the session is opened and buffers the
\* notified frame whether or not the send succeeded.
C9_NotifyExactlyOnOpen ==
    /\ Len(notifications) = Len(objs)
    /\ \A i \in 1..Len(notifications) :
          LET n == notifications[i]
          IN /\ n.session = i
             /\ n.session_id = objs[i].session_id
             /\ \A j \in 1..Len(objs[i].arrived) : objs[i].arrived[j] >= n.frame
             /\ \A j \in 1..Len(handed) :
                   handed[j].session = i =>
                       \A f \in 1..Len(handed[j].frames) : handed[j].frames[f] >= n.frame

\* C9 witness: a live session whose notification failed has buffered a later
\* event frame without a second notification
C9_Witness ==
    \E sid \in SessionIds :
        /\ InMap(sid)
        /\ ~notifications[sid].ok
        /\ \E j \in 1..Len(objs[sid].frames) : objs[sid].frames[j] > notifications[sid].frame

NotificationsOfKey(key) ==
    SelectSeq(notifications, LAMBDA n : objs[n.session].key = key)

\* C10 (as claimed): a key is notified only once, also across sessions.
C10_NotifyOncePerKey ==
    \A key \in Keys : Len(NotificationsOfKey(key)) <= 1

\* C10 (amended): the notification is sent once per session: every session
\* opened for a key, also one opened after the key's earlier session expired,
\* is notified, and the notifications of a key carry distinct session_ids.
C10_NotifyOncePerSession ==
    \A key \in Keys :
        LET ns == NotificationsOfKey(key)
        IN /\ Len(ns) = Cardinality({sid \in SessionIds : objs[sid].key = key})
           /\ \A i, j \in 1..Len(ns) : i # j => ns[i].session_id # ns[j].session_id

\* C10 witness: a key whose session expired and was reopened, notified twice
C10_Witness ==
    \E key \in Keys :
        /\ Len(NotificationsOfKey(key)) >= 2
        /\ sessions[key] # NoSession

\* video_encoder.get_video_duration_seconds(num_frames, fps): num_frames / fps
\* seconds, kept as the fraction <<numerator, denominator>>; 0.0 when fps <= 0
get_video_duration_seconds(num_frames, fps) ==
    IF fps <= 0 THEN <<0, 1>> ELSE <<num_frames, fps>>

\* the sum of two fractions
FracAdd(x, y) == <<x[1] * y[2] + y[1] * x[2], x[2] * y[2]>>

\* fraction x <= fraction y (denominators are positive)
FracLeq(x, y) == x[1] * y[2] <= y[1] * x[2]

\* _encode_worker line 370: the sum of chunk_duration over the chunks in es
RECURSIVE SumOfDurations(_)
SumOfDurations(es) ==
    IF es = << >> THEN <<0, 1>>
    ELSE FracAdd(get_video_duration_seconds(Len(Head(es).frames), Head(es).fps),
                 SumOfDurations(Tail(es)))

\* the session is over and all its chunks, the final one last, were produced
Complete(sid) ==
    /\ Gone(sid)
    /\ EmittedOf(sid) # << >>
    /\ EmittedOf(sid)[Len(EmittedOf(sid))].is_final

\* C30 (as claimed): for every session whose chunks were all produced, the sum
\* of the durations of its chunks is at least last_event_time - start_time and
\* at most that value plus one chunk duration.
C30_DurationsCoverSession ==
    \A sid \in SessionIds :
        Complete(sid) =>
            LET span == objs[sid].last_event_time - objs[sid].start_time
                total == SumOfDurations(EmittedOf(sid))
            IN /\ FracLeq(<<span, 1>>, total)
               /\ FracLeq(total, <<span + objs[sid].chunk_duration_seconds, 1>>)

\* C30 witness: a session that received frames at different times is over, with
\* a runtime-split chunk and the final chunk both produced
C30_Witness ==
    \E sid \in SessionIds :
        /\ Complete(sid)
        /\ Len(EmittedOf(sid)) >= 2
        /\ objs[sid].last_event_time > objs[sid].start_time

\* handle_event_frame was called for the key of session sid in this step
FrameArrivesFor(sid) == frame_seq' # frame_seq /\ objs'[sid] # objs[sid]

\* C31: when a session is ACTIVE and holds exactly chunk_frame_limit frames
\* before the chunk's wall-clock limit, the next event frame splits by count:
\* the job handed to the encoder holds exactly those chunk_frame_limit frames
\* under the old chunk number and is not final, chunk_number advances by one
\* and the triggering frame is the only frame of the new chunk.
C31_SplitByCount ==
    [][\A sid \in SessionIds :
          ( /\ InMap(sid)
            /\ objs[sid].state = "ACTIVE"
            /\ Len(objs[sid].frames) = objs[sid].chunk_frame_limit
            /\ clock - objs[sid].chunk_start_time < objs[sid].chunk_duration_seconds
            /\ FrameArrivesFor(sid) )
          => /\ handed' = Append(handed, [ session |-> sid,
                                           chunk_number |-> objs[sid].chunk_number,
                                           is_final |-> FALSE,
                                           frames |-> objs[sid].frames,
                                           chunk_start_time |-> objs[sid].chunk_start_time ])
             /\ Len(encode_queue') = Len(encode_queue) + 1
             /\ Len(handed'[Len(handed')].frames) = objs[sid].chunk_frame_limit
             /\ objs'[sid].chunk_number = objs[sid].chunk_number + 1
             /\ objs'[sid].frames = <<frame_seq'>>
             /\ objs'[sid].chunk_start_time = clock
      ]_vars

\* C31 witness: two frames at fps 2 filled the chunk within its second and the
\* third frame split it by count
C31_Witness ==
    \E sid \in SessionIds :
        /\ objs[sid].chunk_frame_limit = 2
        /\ clock = objs[sid].start_time
        /\ HandedOf(sid) # << >>
        /\ Len(HandedOf(sid)[1].frames) = 2
        /\ ~HandedOf(sid)[1].is_final
        /\ objs[sid].chunk_number = 1
        /\ Len(objs[sid].frames) = 1

\* C32 (as claimed): the start time reported for a produced chunk is the
\* chunk_start_time that was in force while the chunk's frames were buffered,
\* however far the session has advanced when the worker encodes the job.
C32_ChunkStartIsOwn ==
    \A sid \in SessionIds :
        LET hs == HandedOf(sid)
            es == EmittedOf(sid)
        IN \A i \in 1..Min(Len(es), Len(hs)) :
               es[i].chunk_start_time = hs[i].chunk_start_time

\* C32 witness: a chunk was split off at a later second than it was opened and
\* the worker has produced it
C32_Witness ==
    \E sid \in SessionIds :
        /\ EmittedOf(sid) # << >>
        /\ ~EmittedOf(sid)[1].is_final
        /\ objs[sid].chunk_start_time > HandedOf(sid)[1].chunk_start_time

Range(q) == {q[i] : i \in 1..Len(q)}

\* the encode jobs of the session that hold frame f
JobsWith(sid, f) == {i \in 1..Len(HandedOf(sid)) : f \in Range(HandedOf(sid)[i].frames)}

\* C35 (as claimed): a frame accepted into a session's buffer leaves it only by
\* ring overflow or in an encode job, and is in one job only: no frame is in
\* two jobs, and once the session is out of the map with no job in flight
\* every frame still in its buffer is in exactly one job.
C35_NoBufferedFrameDiscarded ==
    \A sid \in SessionIds :
        /\ \A f \in 1..frame_seq : Cardinality(JobsWith(sid, f)) <= 1
        /\ Gone(sid) => \A f \in Range(objs[sid].frames) :
                            Cardinality(JobsWith(sid, f)) = 1

\* C35 witness: a session that was split at runtime has expired and is out of
\* the map, with frames in its buffer
C35_Witness ==
    \E sid \in SessionIds :
        /\ Gone(sid)
        /\ objs[sid].chunk_number >= 1
        /\ objs[sid].frames # << >>

\* stop() is blocked in encode_queue.join()
StopWaits == stop_pc = "queue_join" /\ UnfinishedTasks > 0

\* C36 (as claimed): stop() always returns: the encode queue is drained and
\* both threads exit.  Checked as its safety part: while stop() waits in
\* encode_queue.join() for jobs to be marked done, the encode worker, the only
\* consumer of the queue, has not exited.
C36_StopReturns ==
    StopWaits => worker_pc # "stopped"

\* C36 witness: stop() flushed an ACTIVE session with buffered frames and
\* waits for the queue
C36_Witness ==
    /\ StopWaits
    /\ \E i \in 1..Len(encode_queue) : encode_queue[i].is_final

(***************************************************************************)
(* LockSpec: self.lock of the session manager, lock by lock.               *)
(* A thread is inside `with self.lock` exactly while mutex names it.  The  *)
(* positions of a thread are the statements between which another thread   *)
(* can run; a position in IoPositions is a call that waits for the message *)
(* bus, the database or the video encoder.                                 *)
(***************************************************************************)
IoPositions == {"notify_db", "notify_send", "encode", "send"}

LkStep(t, pc) == lk_pc' = [lk_pc EXCEPT ![t] = pc]

LkPut(put) == IF put /\ lk_jobs < MaxLockJobs THEN lk_jobs + 1 ELSE lk_jobs

\* handle_event_frame: `with self.lock:` is entered
LkCallerAcquire(t, key) ==
    /\ lk_pc[t] = "idle"
    /\ lk_calls < MaxLockCalls
    /\ mutex = "free"
    /\ mutex' = t
    /\ lk_key' = [lk_key EXCEPT ![t] = key]
    /\ lk_calls' = lk_calls + 1
    /\ LkStep(t, "get_session")
    /\ UNCHANGED <<nonLockVars, lk_open, lk_jobs>>

\* session = self.sessions.get(session_key); a missing session is created and
\* _send_immediate_notification is called, all inside the `with` block
LkCallerGetOrCreate(t) ==
    /\ lk_pc[t] = "get_session"
    /\ lk_open' = lk_open \cup {lk_key[t]}
    /\ LkStep(t, IF lk_key[t] \in lk_open THEN "buffer" ELSE "notify_db")
    /\ UNCHANGED <<nonLockVars, mutex, lk_key, lk_jobs, lk_calls>>

\* send_event_to_kafka: MongoCameraRepository().find_by_id(camera_id) returns
LkNotifyDb(t) ==
    /\ lk_pc[t] = "notify_db"
    /\ LkStep(t, "notify_send")
    /\ UNCHANGED <<nonLockVars, mutex, lk_key, lk_open, lk_jobs, lk_calls>>

\* send_event_to_kafka: producer.send(...) and future.get(timeout=10) return
LkNotifySend(t) ==
    /\ lk_pc[t] = "notify_send"
    /\ LkStep(t, "buffer")
    /\ UNCHANGED <<nonLockVars, mutex, lk_key, lk_open, lk_jobs, lk_calls>>

\* the frame is buffered, a full chunk is put on encode_queue, the `with`
\* block is left
LkCallerBuffer(t, put) ==
    /\ lk_pc[t] = "buffer"
    /\ lk_jobs' = LkPut(put)
    /\ mutex' = "free"
    /\ LkStep(t, "idle")
    /\ UNCHANGED <<nonLockVars, lk_key, lk_open, lk_calls>>

\* _encode_worker: encode_queue.get(timeout=1.0) returns a job
LkWorkerGet ==
    /\ lk_pc["worker"] = "get"
    /\ lk_jobs > 0
    /\ lk_jobs' = lk_jobs - 1
    /\ LkStep("worker", "encode")
    /\ UNCHANGED <<nonLockVars, mutex, lk_key, lk_open, lk_calls>>

\* _encode_worker: the frames are encoded to a video file
LkWorkerEncode ==
    /\ lk_pc["worker"] = "encode"
    /\ LkStep("worker", "send")
    /\ UNCHANGED <<nonLockVars, mutex, lk_key, lk_open, lk_jobs, lk_calls>>

\* _encode_worker: the chunk is sent to the message bus
LkWorkerSend ==
    /\ lk_pc["worker"] = "send"
    /\ LkStep("worker", "update")
    /\ UNCHANGED <<nonLockVars, mutex, lk_key, lk_open, lk_jobs, lk_calls>>

\* _encode_worker: `with self.lock:` around the state update is entered
LkWorkerAcquire ==
    /\ lk_pc["worker"] = "update"
    /\ mutex = "free"
    /\ mutex' = "worker"
    /\ LkStep("worker", "update_locked")
    /\ UNCHANGED <<nonLockVars, lk_key, lk_open, lk_jobs, lk_calls>>

\* _encode_worker: session.state is updated and the `with` block is left
LkWorkerRelease ==
    /\ lk_pc["worker"] = "update_locked"
    /\ mutex' = "free"
    /\ LkStep("worker", "get")
    /\ UNCHANGED <<nonLockVars, lk_key, lk_open, lk_jobs, lk_calls>>

\* _background_worker: after the sleep, `with self.lock:` of the scan is entered
LkSweeperAcquire ==
    /\ lk_pc["sweeper"] = "sleep"
    /\ mutex = "free"
    /\ mutex' = "sweeper"
    /\ LkStep("sweeper", "scan_locked")
    /\ UNCHANGED <<nonLockVars, lk_key, lk_open, lk_jobs, lk_calls>>

\* _background_worker: the scan collects the expired keys and leaves the block
LkSweeperScanned(found) ==
    /\ lk_pc["sweeper"] = "scan_locked"
    /\ found => lk_open # {}
    /\ mutex' = "free"
    /\ LkStep("sweeper", IF found THEN "close" ELSE "sleep")
    /\ UNCHANGED <<nonLockVars, lk_key, lk_open, lk_jobs, lk_calls>>

\* _background_worker: `with self.lock:` of the close of an expired key is entered
LkSweeperCloseAcquire ==
    /\ lk_pc["sweeper"] = "close"
    /\ mutex = "free"
    /\ mutex' = "sweeper"
    /\ LkStep("sweeper", "close_locked")
    /\ UNCHANGED <<nonLockVars, lk_key, lk_open, lk_jobs, lk_calls>>

\* _background_worker: _close_session (which may put the final chunk on
\* encode_queue), del self.sessions[session_key], the block is left
LkSweeperClosed(key, put) ==
    /\ lk_pc["sweeper"] = "close_locked"
    /\ key \in lk_open
    /\ lk_open' = lk_open \ {key}
    /\ lk_jobs' = LkPut(put)
    /\ mutex' = "free"
    /\ LkStep("sweeper", "sleep")
    /\ UNCHANGED <<nonLockVars, lk_key, lk_calls>>

LockNext ==
    \/ \E t \in Callers, key \in Keys : LkCallerAcquire(t, key)
    \/ \E t \in Callers : LkCallerGetOrCreate(t)
    \/ \E t \in Callers : LkNotifyDb(t)
    \/ \E t \in Callers : LkNotifySend(t)
    \/ \E t \in Callers, put \in BOOLEAN : LkCallerBuffer(t, put)
    \/ LkWorkerGet
    \/ LkWorkerEncode
    \/ LkWorkerSend
    \/ LkWorkerAcquire
    \/ LkWorkerRelease
    \/ LkSweeperAcquire
    \/ \E found \in BOOLEAN : LkSweeperScanned(found)
    \/ LkSweeperCloseAcquire
    \/ \E key \in Keys, put \in BOOLEAN : LkSweeperClosed(key, put)

LockSpecInit == SessionIdle /\ LockInit /\ HubInit /\ TaskInit /\ WsInit /\ ExtInit

LockSpec == LockSpecInit /\ [][LockNext]_vars

(* C11: while self.lock is held only bookkeeping is done: the thread inside *)
(* the critical section is never at a message-bus send, a database access  *)
(* or a video encoding.                                                    *)
C11_NoIoUnderLock ==
    \A t \in Threads : mutex = t => lk_pc[t] \notin IoPositions

\* a caller holds the lock while its notification waits for the message bus,
\* and the other caller has not yet entered its critical section
C11_Witness ==
    \E t \in Callers :
        /\ mutex = t
        /\ lk_pc[t] = "notify_send"
        /\ \E u \in Callers \ {t} : lk_pc[u] = "idle"

(***************************************************************************)
(* HubSpec: camera documents, CameraPublisher processes, the frame store   *)
(* and the camera half of the runner's tick.                               *)
(* A publisher is at "open" (the `while self._running` test and av.open),  *)
(* at "decode" (waiting for the next frame of the decode loop), at "sleep" *)
(* (time.sleep(reconnect_delay)) or "exited".  While it sleeps, `lost`     *)
(* records why it left the decode loop or failed to enter it.  The local   *)
(* frame_index is kept only inside the decode loop: it is not read again   *)
(* before `frame_index = 0` of the next connection.                        *)
(***************************************************************************)
\* CameraPublisher.__init__ followed by start()
NewPublisher(c, uri) ==
    [ camera |-> c, source_uri |-> uri, pc |-> "open", running |-> TRUE,
      frame_index |-> 0, cmds |-> 0, lost |-> "none" ]

\* Process.is_alive()
IsAlive(ps, p) == ps[p].pc # "exited"

FrameEnvelope(n) == [kind |-> "frame", frame_index |-> n]

\* _publish_error: {"error": ..., "ts_monotonic": ...}, no frame_index
ErrorEnvelope == [kind |-> "error", frame_index |-> 0]

\* the `while self._running` test, then av.open(self.source_uri, ...): it
\* returns (ok) or raises, and `except Exception` publishes the error
PubOpen(p, ok) ==
    /\ p \in 1..Len(pubs)
    /\ pubs[p].pc = "open"
    /\ IF ~pubs[p].running
       THEN /\ pubs' = [pubs EXCEPT ![p].pc = "exited"]
            /\ UNCHANGED store
       ELSE IF ok
       THEN /\ pubs' = [pubs EXCEPT ![p].pc = "decode", ![p].frame_index = 0]
            /\ UNCHANGED store
       ELSE /\ pubs' = [pubs EXCEPT ![p].pc = "sleep", ![p].lost = "open_failed"]
            /\ store' = [store EXCEPT ![pubs[p].camera] = ErrorEnvelope]
    /\ UNCHANGED <<nonHubVars, tick_report, cam_status, cam_uri, camera_publishers>>

\* _check_stop_command: one "stop" taken from command_queue clears _running
CheckStopCommand(pub) ==
    IF pub.cmds > 0
    THEN [pub EXCEPT !.running = FALSE, !.cmds = @ - 1]
    ELSE pub

\* one iteration of `for frame in rtsp_container.decode(video_stream)`:
\* break if not _running, else _check_stop_command, frame_index += 1 and the
\* frame is stored
PubFrame(p) ==
    /\ p \in 1..Len(pubs)
    /\ pubs[p].pc = "decode"
    /\ IF ~pubs[p].running
       THEN /\ pubs' = [pubs EXCEPT ![p].pc = "sleep", ![p].lost = "stopped",
                                      ![p].frame_index = 0]
            /\ UNCHANGED store
       ELSE /\ pubs[p].frame_index < MaxFrameIndex
            /\ LET pub == CheckStopCommand(pubs[p])
                   n == pub.frame_index + 1
               IN /\ pubs' = [pubs EXCEPT ![p] = [pub EXCEPT !.frame_index = n]]
                  /\ store' = [store EXCEPT ![pubs[p].camera] = FrameEnvelope(n)]
    /\ UNCHANGED <<nonHubVars, tick_report, cam_status, cam_uri, camera_publishers>>

\* the decode generator is exhausted: "Connection lost", time.sleep
PubDecodeEnd(p) ==
    /\ p \in 1..Len(pubs)
    /\ pubs[p].pc = "decode"
    /\ pubs' = [pubs EXCEPT ![p].pc = "sleep", ![p].lost = "ended",
                              ![p].frame_index = 0]
    /\ UNCHANGED <<nonHubVars, tick_report, cam_status, cam_uri, camera_publishers, store>>

\* an exception inside the decode loop: `except Exception` publishes the error
PubDecodeError(p) ==
    /\ p \in 1..Len(pubs)
    /\ pubs[p].pc = "decode"
    /\ pubs' = [pubs EXCEPT ![p].pc = "sleep", ![p].lost = "decode_error",
                              ![p].frame_index = 0]
    /\ store' = [store EXCEPT ![pubs[p].camera] = ErrorEnvelope]
    /\ UNCHANGED <<nonHubVars, tick_report, cam_status, cam_uri, camera_publishers>>

\* time.sleep(self.reconnect_delay) returns: back to `while self._running`
PubWake(p) ==
    /\ p \in 1..Len(pubs)
    /\ pubs[p].pc = "sleep"
    /\ pubs' = [pubs EXCEPT ![p].pc = "open", ![p].lost = "none"]
    /\ UNCHANGED <<nonHubVars, tick_report, cam_status, cam_uri, camera_publishers, store>>

\* the process ends without having been told to stop (killed, or an
\* exception escapes run())
PubDie(p) ==
    /\ p \in 1..Len(pubs)
    /\ IsAlive(pubs, p)
    /\ pubs' = [pubs EXCEPT ![p].pc = "exited", ![p].lost = "none",
                              ![p].frame_index = 0]
    /\ UNCHANGED <<nonHubVars, tick_report, cam_status, cam_uri, camera_publishers, store>>

\* POST /cameras/create: RegisterCameraUseCase creates the document, or updates
\* the URL of an existing one and activates it
RegisterCamera(c, uri) ==
    /\ cam_status' = [cam_status EXCEPT ![c] = "active"]
    /\ cam_uri' = [cam_uri EXCEPT ![c] = uri]
    /\ UNCHANGED <<nonHubVars, tick_report, pubs, camera_publishers, store>>

\* DELETE /cameras/remove/{camera_id}: MongoCameraRepository.delete sets the
\* status of an existing document to "inactive"
RemoveCamera(c) ==
    /\ cam_status[c] # "absent"
    /\ cam_status' = [cam_status EXCEPT ![c] = "inactive"]
    /\ UNCHANGED <<nonHubVars, tick_report, cam_uri, pubs, camera_publishers, store>>

\* (mutant) a registered publisher is kept whether or not it is alive
NeedsPublisherUnlessRegistered(ps, reg, c) == reg[c] = NoProc

\* runner STEP 1: `if camera_id in camera_publishers` and is_alive() -> continue;
\* a dead one is deleted from the registry and a new one is started
NeedsPublisher(ps, reg, c) == reg[c] = NoProc \/ ~IsAlive(ps, reg[c])

\* find({"status": {"$ne": "inactive"}}), documents without id or URL skipped
IsActiveCamera(c) == cam_status[c] = "active" /\ cam_uri[c] # "none"

\* runner STEP 1 and STEP 2 over the cameras: start the missing publishers;
\* for a registered camera that is no longer active put "stop" on its
\* command queue, join(timeout=1.0) and delete the entry.  The report says
\* for each camera whether it was not active ("inactive"), its registered
\* publisher was alive ("alive") or dead ("dead") and kept, or a publisher
\* was started ("started")
RECURSIVE ReconcileCameras(_, _, _, _)
ReconcileCameras(cs, ps, reg, report) ==
    IF cs = << >> THEN <<ps, reg, report>>
    ELSE LET c == Head(cs) IN
         IF IsActiveCamera(c)
         THEN IF NeedsPublisher(ps, reg, c)
              THEN ReconcileCameras(Tail(cs), Append(ps, NewPublisher(c, cam_uri[c])),
                                    [reg EXCEPT ![c] = Len(ps) + 1],
                                    [report EXCEPT ![c] = "started"])
              ELSE ReconcileCameras(Tail(cs), ps, reg,
                                    [report EXCEPT ![c] = IF IsAlive(ps, reg[c])
                                                          THEN "alive" ELSE "dead"])
         ELSE IF reg[c] # NoProc
              THEN ReconcileCameras(Tail(cs), [ps EXCEPT ![reg[c]].cmds = @ + 1],
                                    [reg EXCEPT ![c] = NoProc],
                                    [report EXCEPT ![c] = "inactive"])
              ELSE ReconcileCameras(Tail(cs), ps, reg, [report EXCEPT ![c] = "inactive"])

\* the camera half of one pass of the runner's `while True` loop
RunnerCameras ==
    /\ LET r == ReconcileCameras(CameraOrder, pubs, camera_publishers, tick_report)
       IN /\ Len(r[1]) <= MaxPubs
          /\ pubs' = r[1]
          /\ camera_publishers' = r[2]
          /\ tick_report' = r[3]
    /\ UNCHANGED <<nonHubVars, cam_status, cam_uri, store>>

PubStep(p) ==
    \/ \E ok \in BOOLEAN : PubOpen(p, ok)
    \/ PubFrame(p)
    \/ PubDecodeEnd(p)
    \/ PubDecodeError(p)
    \/ PubWake(p)

HubNext ==
    \/ \E c \in Cameras, uri \in Urls : RegisterCamera(c, uri)
    \/ \E c \in Cameras : RemoveCamera(c)
    \/ RunnerCameras
    \/ \E p \in 1..MaxPubs : PubStep(p)
    \/ \E p \in 1..MaxPubs : PubDie(p)

HubSpecInit == SessionIdle /\ LockInit /\ HubInit /\ TaskInit /\ WsInit /\ ExtInit

HubSpec == HubSpecInit /\ [][HubNext]_vars

\* every started publisher process is scheduled: it keeps taking the steps of
\* run() for as long as it has one to take
HubFairSpec == HubSpec /\ \A p \in 1..MaxPubs : WF_vars(PubStep(p))

LivePublishers(c) == {p \in 1..Len(pubs) : pubs[p].camera = c /\ IsAlive(pubs, p)}

(* C12: two frame envelopes that follow one another in FrameStore[camera]  *)
(* with no error envelope between them carry strictly increasing           *)
(* frame_index values, reconnects included.                                *)
C12_FrameIndexNeverRegresses ==
    [][\A c \in Cameras :
          (store[c].kind = "frame" /\ store'[c].kind = "frame" /\ store'[c] # store[c])
              => store'[c].frame_index > store[c].frame_index]_vars

\* a single publisher shows its second frame after its first
C12_Witness ==
    \E c \in Cameras :
        /\ Len(pubs) = 1
        /\ pubs[1].pc = "decode"
        /\ pubs[1].frame_index = 2
        /\ store[c] = FrameEnvelope(2)

(* C13: while a publisher that lost its source (open failure, decode error *)
(* or end of the decode loop) waits out the reconnect delay, the envelope  *)
(* visible in FrameStore[camera] is an error envelope, not the last frame. *)
C13_ErrorVisibleDuringOutage ==
    \A p \in 1..Len(pubs) :
        ( /\ pubs[p].pc = "sleep"
          /\ pubs[p].lost \in {"open_failed", "decode_error", "ended"}
          /\ LivePublishers(pubs[p].camera) = {p} )
            => store[pubs[p].camera].kind = "error"

\* the decode loop of the only publisher ended after it had published a frame
C13_Witness ==
    /\ Len(pubs) = 1
    /\ pubs[1].pc = "sleep"
    /\ pubs[1].lost = "ended"
    /\ store[pubs[1].camera].kind = "frame"

(* C14: a publisher that has been sent a stop command eventually exits its *)
(* run loop, whatever it is doing when the command arrives.                *)
C14_StopEventuallyObserved ==
    \A p \in 1..MaxPubs :
        (p <= Len(pubs) /\ pubs[p].cmds > 0) ~> (p <= Len(pubs) /\ pubs[p].pc = "exited")

\* a stop command waits in the queue of a publisher that sleeps after a
\* failed open
C14_Witness ==
    \E p \in 1..Len(pubs) :
        pubs[p].cmds > 0 /\ pubs[p].pc = "sleep" /\ pubs[p].lost = "open_failed"

(* C15: at any time at most one live CameraPublisher process exists per    *)
(* camera.                                                                 *)
C15_OnePublisherPerCamera ==
    \A c \in Cameras : Cardinality(LivePublishers(c)) <= 1

\* the camera was deactivated and reactivated: its first publisher was told
\* to stop and dropped from the registry, and a second one is registered
C15_Witness ==
    \E c \in Cameras :
        /\ camera_publishers[c] = 2
        /\ pubs[1].camera = c
        /\ pubs[1].cmds + (IF pubs[1].running THEN 0 ELSE 1) > 0
        /\ IsAlive(pubs, 2)

(* C16: after a reconciliation tick every camera that was active with an   *)
(* id and a stream URL has a registered publisher that was alive when the  *)
(* tick checked it or was started by the tick: a publisher found dead is   *)
(* replaced by the tick that finds it, never kept.                         *)
C16_TickLeavesLivePublisher ==
    \A c \in Cameras :
        /\ tick_report[c] \in {"none", "inactive", "alive", "started"}
        /\ tick_report[c] \in {"alive", "started"} =>
               /\ camera_publishers[c] # NoProc
               /\ pubs[camera_publishers[c]].camera = c
        /\ tick_report[c] = "inactive" => camera_publishers[c] = NoProc

\* a publisher that died without a stop command has been replaced
C16_Witness ==
    \E c \in Cameras :
        /\ IsActiveCamera(c)
        /\ camera_publishers[c] = 2
        /\ pubs[1].camera = c
        /\ ~IsAlive(pubs, 1)
        /\ pubs[1].running /\ pubs[1].cmds = 0
        /\ IsAlive(pubs, 2)
        /\ tick_report[c] = "started"

\* the camera is active and its registered publisher is alive and was started
\* with another URL than the camera document has now
Stale(c) ==
    /\ IsActiveCamera(c)
    /\ camera_publishers[c] # NoProc
    /\ IsAlive(pubs, camera_publishers[c])
    /\ pubs[camera_publishers[c]].source_uri # cam_uri[c]

(* C40 (as claimed): when the URL of an active camera was changed while    *)
(* its publisher runs, the runner replaces the publisher within a bounded  *)
(* number of passes.  A pass is a function of the documents, the           *)
(* publishers and the registry, so a pass that finds the stale publisher   *)
(* has to act on it: stop it, unregister it or register another one.       *)
C40_PassActsOnStalePublisher ==
    [][\A c \in Cameras :
          RunnerCameras /\ Stale(c)
          => \/ camera_publishers'[c] # camera_publishers[c]
             \/ pubs'[camera_publishers[c]] # pubs[camera_publishers[c]]
      ]_vars

\* the URL of a camera was changed while its publisher decodes the old one
C40_Witness ==
    \E c \in Cameras :
        /\ Stale(c)
        /\ pubs[camera_publishers[c]].pc = "decode"
        /\ store[c].kind = "frame"

(***************************************************************************)
(* TaskSpec: agent documents, detection worker processes and the task half *)
(* of the runner's tick.  The runner reads the clock and the active agents *)
(* (RunnerReadTasks: current_time, STEP 3) and then works through the list *)
(* it read (RunnerLaunch: STEP 4 and the reaping of finished processes);   *)
(* the API and the workers can run between the two.  Time is `clock`.      *)
(***************************************************************************)
\* the statuses the runner's find() asks for
ActiveStatuses == {"PENDING", "ACTIVE", "RUNNING", "pending", "scheduled", "running"}

\* POST /agents/create for a new agent.  Documents written by the API hold
\* start_time/end_time; documents in the older layout hold start_at/end_at,
\* and the runner reads both layouts
RegisterAgent(a, start, end, field) ==
    /\ task_status[a] = "absent"
    /\ start # 0 /\ end # 0 => start < end
    /\ task_status' = [task_status EXCEPT ![a] = "PENDING"]
    /\ task_start' = [task_start EXCEPT ![a] = start]
    /\ task_end' = [task_end EXCEPT ![a] = end]
    /\ task_end_field' = [task_end_field EXCEPT ![a] = field]
    /\ UNCHANGED <<clock, nonTaskVars, workers, task_processes, runner_pc, tasks_list,
                   runner_now, removed>>

\* DELETE /agents/remove/{agent_id}: MongoAgentRepository.delete sets the
\* status of an existing document to "cancelled"
RemoveAgent(a) ==
    /\ task_status[a] # "absent"
    /\ task_status' = [task_status EXCEPT ![a] = "cancelled"]
    /\ removed' = removed \cup {a}
    /\ UNCHANGED <<clock, nonTaskVars, task_start, task_end, task_end_field, workers,
                   task_processes, runner_pc, tasks_list, runner_now>>

WorkerAlive(ws, w) == ws[w].pc = "alive"

\* run_task_worker, continuous loop: the document is read with the projection
\* {"stop_requested", "end_at"}; once now >= end_at the worker sets the status
\* "completed" and returns.  An end time held in end_time is not read.
TaskWorkerExpire(w) ==
    /\ w \in 1..Len(workers)
    /\ WorkerAlive(workers, w)
    /\ LET a == workers[w].agent IN
       /\ task_end_field[a] = "end_at"
       /\ task_end[a] # 0
       /\ clock >= task_end[a]
       /\ task_status' = [task_status EXCEPT ![a] = "completed"]
    /\ workers' = [workers EXCEPT ![w].pc = "returned"]
    /\ UNCHANGED <<clock, nonTaskVars, task_start, task_end, task_end_field,
                   task_processes, runner_pc, tasks_list, runner_now, removed>>

\* the worker process ends on its own: no model could be loaded, the document
\* was not found, or it crashed
TaskWorkerDie(w) ==
    /\ w \in 1..Len(workers)
    /\ WorkerAlive(workers, w)
    /\ Cardinality({v \in 1..Len(workers) : workers[v].pc = "exited"}) < MaxWorkerDeaths
    /\ workers' = [workers EXCEPT ![w].pc = "exited"]
    /\ UNCHANGED <<clock, nonTaskVars, task_status, task_start, task_end, task_end_field,
                   task_processes, runner_pc, tasks_list, runner_now, removed>>

\* current_time = now() and STEP 3: tasks_list = the agents with an active
\* status; a registered process whose agent is not in the list is terminated
\* (SIGTERM, which run_task_worker does not handle), joined for 0.5 s and
\* deleted from the registry
RunnerReadTasks ==
    /\ runner_pc = "read"
    /\ LET list == {a \in Agents : task_status[a] \in ActiveStatuses}
           dropped == {task_processes[a] : a \in Agents \ list} \ {NoProc}
       IN /\ tasks_list' = list
          /\ workers' = [w \in 1..Len(workers) |->
                           IF w \in dropped /\ WorkerAlive(workers, w)
                           THEN [workers[w] EXCEPT !.pc = "terminated"]
                           ELSE workers[w]]
          /\ task_processes' = [a \in Agents |->
                                  IF a \in list THEN task_processes[a] ELSE NoProc]
    /\ runner_now' = clock
    /\ runner_pc' = "launch"
    /\ UNCHANGED <<clock, nonTaskVars, task_status, task_start, task_end, task_end_field,
                   removed>>

\* (mutant) STEP 4 without the `is_alive()` test
AlreadyRunningNever(ws, reg, a) == FALSE

\* STEP 4: `if task_id in task_processes and task_processes[task_id].is_alive()`
AlreadyRunning(ws, reg, a) == reg[a] # NoProc /\ WorkerAlive(ws, reg[a])

\* STEP 4 over tasks_list: skip an agent whose worker is alive; set PENDING
\* when the start time is in the future; set COMPLETED when the end time has
\* passed; otherwise set RUNNING, start a worker process and register it
RECURSIVE LaunchTasks(_, _, _, _)
LaunchTasks(as, st, ws, reg) ==
    IF as = << >> THEN <<st, ws, reg>>
    ELSE LET a == Head(as) IN
         IF a \notin tasks_list \/ AlreadyRunning(ws, reg, a)
         THEN LaunchTasks(Tail(as), st, ws, reg)
         ELSE IF task_start[a] # 0 /\ runner_now < task_start[a]
         THEN LaunchTasks(Tail(as), [st EXCEPT ![a] = "PENDING"], ws, reg)
         ELSE IF task_end[a] # 0 /\ runner_now >= task_end[a]
         THEN LaunchTasks(Tail(as), [st EXCEPT ![a] = "COMPLETED"], ws, reg)
         ELSE LaunchTasks(Tail(as), [st EXCEPT ![a] = "RUNNING"],
                          Append(ws, [agent |-> a, pc |-> "alive"]),
                          [reg EXCEPT ![a] = Len(ws) + 1])

\* "Clean up finished processes": entries whose process is not alive are deleted
ReapFinished(ws, reg) ==
    [a \in Agents |-> IF reg[a] # NoProc /\ ~WorkerAlive(ws, reg[a]) THEN NoProc ELSE reg[a]]

\* STEP 4, the reaping and time.sleep(poll_interval)
RunnerLaunch ==
    /\ runner_pc = "launch"
    /\ LET r == LaunchTasks(AgentOrder, task_status, workers, task_processes)
       IN /\ Len(r[2]) <= MaxWorkers
          /\ task_status' = r[1]
          /\ workers' = r[2]
          /\ task_processes' = ReapFinished(r[2], r[3])
    /\ runner_pc' = "read"
    /\ UNCHANGED <<clock, nonTaskVars, task_start, task_end, task_end_field, tasks_list,
                   runner_now, removed>>

TaskWorkerStep(w) == TaskWorkerExpire(w)

TaskNext ==
    \/ Tick
    \/ \E a \in Agents, start \in 0..MaxStart, end \in 0..MaxTime,
          field \in {"end_time", "end_at"} : RegisterAgent(a, start, end, field)
    \/ \E a \in Agents : RemoveAgent(a)
    \/ RunnerReadTasks
    \/ RunnerLaunch
    \/ \E w \in 1..MaxWorkers : TaskWorkerStep(w)
    \/ \E w \in 1..MaxWorkers : TaskWorkerDie(w)

TaskSpecInit == SessionIdle /\ LockInit /\ HubInit /\ TaskInit /\ WsInit /\ ExtInit

TaskSpec == TaskSpecInit /\ [][TaskNext]_vars

\* the runner's loop and every started worker process are scheduled, and time
\* passes
TaskFairSpec ==
    /\ TaskSpec
    /\ WF_vars(Tick)
    /\ WF_vars(RunnerReadTasks)
    /\ WF_vars(RunnerLaunch)
    /\ \A w \in 1..MaxWorkers : WF_vars(TaskWorkerStep(w))

LiveWorkers(a) == {w \in 1..Len(workers) : workers[w].agent = a /\ WorkerAlive(workers, w)}

Expired(a) == task_status[a] # "absent" /\ task_end[a] # 0 /\ clock >= task_end[a]

(* C19: every agent whose end time has passed is eventually marked         *)
(* completed and has no live worker, also when its worker is running at    *)
(* the moment the end time passes (an agent removed meanwhile is           *)
(* cancelled instead).                                                     *)
C19_ExpiredEventuallyCompleted ==
    \A a \in Agents :
        Expired(a) ~> \/ /\ task_status[a] \in {"COMPLETED", "completed"}
                         /\ LiveWorkers(a) = {}
                      \/ a \in removed

\* the end time held in end_time has passed while the worker is running
C19_Witness ==
    \E a \in Agents :
        /\ Expired(a)
        /\ task_end_field[a] = "end_time"
        /\ task_status[a] = "RUNNING"
        /\ LiveWorkers(a) # {}
        /\ runner_pc = "read" /\ runner_now >= task_end[a]

(* C20: once an agent has been removed (status cancelled) its status is    *)
(* never RUNNING again, whatever the interleaving of the removal with a    *)
(* runner tick.                                                            *)
C20_RemovedNeverRunning ==
    \A a \in removed : task_status[a] # "RUNNING"

\* the runner terminated the worker of a removed agent
C20_Witness ==
    \E a \in removed :
        /\ task_status[a] = "cancelled"
        /\ task_processes[a] = NoProc
        /\ \E w \in 1..Len(workers) : workers[w].agent = a /\ workers[w].pc = "terminated"

(***************************************************************************)
(* WsSpec: AgentWsFmp4Service.  add_viewer and remove_viewer run entirely  *)
(* under `async with self._lock`, so each is one action; the FFmpeg        *)
(* process and the two asyncio tasks of a stream run on their own.  The    *)
(* agent is assumed to have frames in shared_store (add_viewer returns     *)
(* before the lock otherwise).                                             *)
(***************************************************************************)
\* _AgentStreamState(process=process) after the two create_task calls
NewStreamState(a, v) ==
    [ agent |-> a, process |-> "live", frame_reader_task |-> "running",
      broadcast_task |-> "running", viewers |-> {v} ]

\* _AgentStreamState(process=process) when process.poll() is not None right
\* after Popen: add_viewer closes the websocket and returns
FailedStreamState(a) ==
    [ agent |-> a, process |-> "dead", frame_reader_task |-> "none",
      broadcast_task |-> "none", viewers |-> {} ]

\* (mutant) every add_viewer starts an encoder
NeedsEncoderAlways(a) == TRUE

\* add_viewer: `if state is None or state.process.poll() is not None`
NeedsEncoder(a) ==
    ws_streams[a] = NoProc \/ ws_states[ws_streams[a]].process = "dead"

\* add_viewer, the `async with self._lock` block
AddViewer(a, v, started) ==
    IF NeedsEncoder(a)
    THEN /\ Len(ws_states) < MaxEncoders
         /\ ws_states' = Append(ws_states,
                                IF started THEN NewStreamState(a, v) ELSE FailedStreamState(a))
         /\ ws_streams' = [ws_streams EXCEPT ![a] = Len(ws_states) + 1]
         /\ ws_attached' = IF started THEN [ws_attached EXCEPT ![a] = @ \cup {v}]
                           ELSE ws_attached
         /\ UNCHANGED nonWsVars
    ELSE /\ ws_states' = [ws_states EXCEPT ![ws_streams[a]].viewers = @ \cup {v}]
         /\ ws_attached' = [ws_attached EXCEPT ![a] = @ \cup {v}]
         /\ UNCHANGED <<nonWsVars, ws_streams>>

\* a finished or missing task stays as it is; a running one is cancelled
Cancelled(task) == IF task = "running" THEN "done" ELSE task

\* remove_viewer: discard the viewer; with no viewer left terminate the
\* process (kill after wait(timeout=2)), cancel and await both tasks and
\* delete the stream
RemoveViewer(a, v) ==
    /\ ws_streams[a] # NoProc
    /\ LET i == ws_streams[a]
           left == ws_states[i].viewers \ {v}
       IN IF left = {}
          THEN /\ ws_states' = [ws_states EXCEPT
                                   ![i].viewers = left,
                                   ![i].process = "dead",
                                   ![i].frame_reader_task = Cancelled(@),
                                   ![i].broadcast_task = Cancelled(@)]
               /\ ws_streams' = [ws_streams EXCEPT ![a] = NoProc]
          ELSE /\ ws_states' = [ws_states EXCEPT ![i].viewers = left]
               /\ UNCHANGED ws_streams
    /\ ws_attached' = [ws_attached EXCEPT ![a] = @ \ {v}]
    /\ UNCHANGED nonWsVars

\* the FFmpeg process ends on its own
EncoderDie(i) ==
    /\ i \in 1..Len(ws_states)
    /\ ws_states[i].process = "live"
    /\ ws_states' = [ws_states EXCEPT ![i].process = "dead"]
    /\ UNCHANGED <<nonWsVars, ws_streams, ws_attached>>

\* _read_frames_and_feed_ffmpeg returns: `while state.process.poll() is None`
\* is false, or a write to stdin failed
FeederExit(i) ==
    /\ i \in 1..Len(ws_states)
    /\ ws_states[i].frame_reader_task = "running"
    /\ ws_states' = [ws_states EXCEPT ![i].frame_reader_task = "done"]
    /\ UNCHANGED <<nonWsVars, ws_streams, ws_attached>>

\* _broadcast_loop returns: `while state.process.poll() is None` is false, or
\* an exception left the loop
BroadcastExit(i) ==
    /\ i \in 1..Len(ws_states)
    /\ ws_states[i].broadcast_task = "running"
    /\ ws_states' = [ws_states EXCEPT ![i].broadcast_task = "done"]
    /\ UNCHANGED <<nonWsVars, ws_streams, ws_attached>>

\* _broadcast_loop: ws.send_bytes raised, the viewer is discarded
BroadcastDropViewer(i, v) ==
    /\ i \in 1..Len(ws_states)
    /\ ws_states[i].broadcast_task = "running"
    /\ ws_states[i].process = "live"
    /\ v \in ws_states[i].viewers
    /\ ws_states' = [ws_states EXCEPT ![i].viewers = @ \ {v}]
    /\ ws_attached' = [ws_attached EXCEPT ![ws_states[i].agent] = @ \ {v}]
    /\ UNCHANGED <<nonWsVars, ws_streams>>

WsNext ==
    \/ \E a \in Agents, v \in Viewers, started \in BOOLEAN : AddViewer(a, v, started)
    \/ \E a \in Agents, v \in Viewers : RemoveViewer(a, v)
    \/ \E i \in 1..MaxEncoders : EncoderDie(i)
    \/ \E i \in 1..MaxEncoders : FeederExit(i)
    \/ \E i \in 1..MaxEncoders : BroadcastExit(i)
    \/ \E i \in 1..MaxEncoders, v \in Viewers : BroadcastDropViewer(i, v)

WsSpecInit == SessionIdle /\ LockInit /\ HubInit /\ TaskInit /\ WsInit /\ ExtInit

WsSpec == WsSpecInit /\ [][WsNext]_vars

StatesOf(a) == {i \in 1..Len(ws_states) : ws_states[i].agent = a}
LiveEncoders(a) == {i \in StatesOf(a) : ws_states[i].process = "live"}
Feeders(a) == {i \in StatesOf(a) : ws_states[i].frame_reader_task = "running"}
Broadcasters(a) == {i \in StatesOf(a) : ws_states[i].broadcast_task = "running"}

(* C18 as stated: per agent at most one live encoder process, at most one  *)
(* feeder task and at most one broadcast task exist at any time.           *)
C18_OneEncoderOneFeederOneBroadcaster ==
    \A a \in Agents :
        /\ Cardinality(LiveEncoders(a)) <= 1
        /\ Cardinality(Feeders(a)) <= 1
        /\ Cardinality(Broadcasters(a)) <= 1

(* C18 as the code has it: per agent at most one encoder process is live   *)
(* and it is the registered one; a feeder or broadcast task of a stream    *)
(* other than the registered one belongs to an encoder that is dead, so at *)
(* most one feeder and one broadcast task serve a live encoder.            *)
C18_OneLiveEncoder ==
    \A a \in Agents :
        /\ Cardinality(LiveEncoders(a)) <= 1
        /\ \A i \in LiveEncoders(a) : ws_streams[a] = i
        /\ \A i \in Feeders(a) \cup Broadcasters(a) :
               ws_streams[a] # i => ws_states[i].process = "dead"

\* an encoder died and add_viewer started its replacement while a second
\* viewer was connected to the first
C18_Witness ==
    \E a \in Agents :
        /\ Len(ws_states) >= 2
        /\ ws_states[1].agent = a
        /\ ws_states[1].process = "dead"
        /\ ws_states[1].viewers = Viewers
        /\ ws_streams[a] = 2
        /\ ws_states[2].process = "live"
        /\ ws_states[2].frame_reader_task = "running"

(* C27: whenever the last viewer of an agent is removed, by remove_viewer  *)
(* or by the broadcast task dropping a viewer whose send failed, the       *)
(* encoder is shut down, both tasks are torn down and the stream state is  *)
(* deleted: no live encoder, registered or not, is left with no viewers.   *)
C27_NoEncoderWithoutViewers ==
    \A a \in Agents :
        \A i \in LiveEncoders(a) : ws_states[i].viewers # {}

\* the broadcast task dropped the only viewer: the stream is still
\* registered, its encoder is live and its two tasks run
C27_Witness ==
    \E a \in Agents :
        /\ ws_streams[a] # NoProc
        /\ ws_states[ws_streams[a]].viewers = {}
        /\ ws_states[ws_streams[a]].process = "live"
        /\ ws_states[ws_streams[a]].frame_reader_task = "running"
        /\ ws_states[ws_streams[a]].broadcast_task = "running"

(* C38 (as claimed): every viewer add_viewer attached and that was not     *)
(* removed or dropped is in the viewer set of the agent's current stream   *)
(* state, also after the encoder died and add_viewer restarted it for a    *)
(* later viewer.                                                           *)
C38_AttachedViewersInCurrentState ==
    \A a \in Agents :
        ws_attached[a] # {} =>
            /\ ws_streams[a] # NoProc
            /\ ws_attached[a] \subseteq ws_states[ws_streams[a]].viewers

\* the encoder of a stream with a viewer died and add_viewer started a new
\* encoder for another viewer
C38_Witness ==
    \E a \in Agents :
        /\ Len(ws_states) >= 2
        /\ ws_states[1].agent = a
        /\ ws_states[1].process = "dead"
        /\ ws_streams[a] = 2
        /\ ws_states[2].process = "live"
        /\ ws_attached[a] = Viewers

(***************************************************************************)
(* DetSpec: the frame loop of run_task_worker with use_hub, against a      *)
(* publisher that keeps one connection (frame_index grows by one per       *)
(* frame).  The continuous loop and the patrol window acquire the frame    *)
(* with the same statements.                                               *)
(***************************************************************************)
\* CameraPublisher.run stores the next decoded frame
DetHubFrame ==
    /\ det_published < MaxHubIndex
    /\ det_published' = det_published + 1
    /\ det_store' = FrameEnvelope(det_published + 1)
    /\ UNCHANGED <<nonDetVars, det_pc, entry, last_seen_hub_index, det_cycles>>

\* CameraPublisher._publish_error stores an envelope without a frame
DetHubError ==
    /\ det_store.kind # "error"
    /\ det_store' = ErrorEnvelope
    /\ UNCHANGED <<nonDetVars, det_published, det_pc, entry, last_seen_hub_index, det_cycles>>

\* reconstruct_frame(entry): None unless the entry has bytes, shape and dtype
reconstruct_frame(e) == IF e.kind = "frame" THEN e.frame_index ELSE NoIndex

\* "Acquire next frame": entry = shared_store.get(camera_id, {}); a missing
\* frame sleeps 0.05 s and continues; otherwise hub_index is only used for
\* the skipped counter and last_seen_hub_index = hub_index
DetAcquire ==
    /\ det_pc = "acquire"
    /\ entry' = det_store
    /\ IF reconstruct_frame(det_store) = NoIndex
       THEN /\ det_pc' = "backoff"
            /\ UNCHANGED last_seen_hub_index
       ELSE /\ det_pc' = "cycle"
            /\ last_seen_hub_index' = det_store.frame_index
    /\ UNCHANGED <<nonDetVars, det_published, det_store, det_cycles>>

\* time.sleep(0.05); continue
DetBackoff ==
    /\ det_pc = "backoff"
    /\ det_pc' = "acquire"
    /\ UNCHANGED <<nonDetVars, det_published, det_store, entry, last_seen_hub_index, det_cycles>>

\* the rest of the iteration: YOLO on the frame, evaluate_rules, the event
\* sent to the backend, the heartbeat
DetCycle ==
    /\ det_pc = "cycle"
    /\ Len(det_cycles) < MaxCycles
    /\ det_cycles' = Append(det_cycles, entry.frame_index)
    /\ det_pc' = "acquire"
    /\ UNCHANGED <<nonDetVars, det_published, det_store, entry, last_seen_hub_index>>

DetNext ==
    \/ DetHubFrame
    \/ DetHubError
    \/ DetAcquire
    \/ DetBackoff
    \/ DetCycle

DetSpecInit == CoreIdle /\ ExtInit

DetSpec == DetSpecInit /\ [][DetNext]_vars

(* C21: a detection worker never runs two detection cycles on the same     *)
(* frame: no two consecutive cycles of the worker have the same            *)
(* frame_index of the frame store.                                         *)
C21_NoCycleOnSameFrame ==
    \A i \in 1..(Len(det_cycles) - 1) : det_cycles[i] # det_cycles[i + 1]

\* the worker has read the frame_index it processed last and goes on to
\* run a detection cycle on it
C21_Witness ==
    /\ det_pc = "cycle"
    /\ det_cycles # << >>
    /\ det_cycles[Len(det_cycles)] = entry.frame_index

(***************************************************************************)
(* RuleSpec: evaluate_rules and the handlers class_presence,               *)
(* count_at_least and class_count, called once per frame by the detection  *)
(* worker.  The detections of a frame are the number of boxes of every     *)
(* class; every rule names one class.                                      *)
(***************************************************************************)
\* rules_registry.keys() after the rule_types modules were imported
rules_registry == {"class_presence", "count_at_least", "class_count"}

\* (mutant) the wait is over only after more than duration_seconds
DurationElapsedLate(now, since, duration_seconds) == now - since > duration_seconds

\* not `(now - last_matched_since).total_seconds() < duration_seconds`
DurationElapsed(now, since, duration_seconds) == ~(now - since < duration_seconds)

\* "duration handling" of class_presence and count_at_least, the same
\* statements in both: what the handler returns (label or NoLabel) and the
\* last_matched_since it leaves
DurationGate(matched_now, label, rule, since, now) ==
    IF ~matched_now
    THEN [label |-> NoLabel, since |-> NoTime]
    ELSE IF rule.duration_seconds <= 0
    THEN [label |-> label, since |-> now]
    ELSE IF since = NoTime
    THEN [label |-> NoLabel, since |-> now]
    ELSE IF ~DurationElapsed(now, since, rule.duration_seconds)
    THEN [label |-> NoLabel, since |-> since]
    ELSE [label |-> label, since |-> since]

\* evaluate_class_presence with one class, match "any": matched_now is
\* len(found_classes) > 0, the default label "<class> detected"
evaluate_class_presence(rule, detections, since, now) ==
    DurationGate(detections[rule.class] > 0,
                 [count |-> 0, class |-> rule.class, text |-> "detected"], rule, since, now)

\* evaluate_count_at_least: matched_now is matched_count >= min_count, the
\* default label "<count> <class>(s) detected"
evaluate_count_at_least(rule, detections, since, now) ==
    LET matched_count == detections[rule.class]
    IN DurationGate(matched_count >= rule.min_count,
                    [count |-> matched_count, class |-> rule.class,
                     text |-> IF matched_count # 1 THEN "s detected" ELSE "detected"],
                    rule, since, now)

\* evaluate_class_count: a label on every frame, the rule state untouched
evaluate_class_count(rule, detections, since, now) ==
    LET matched_count == detections[rule.class]
    IN [label |-> [count |-> matched_count, class |-> rule.class,
                   text |-> IF matched_count = 0 THEN "No detected"
                            ELSE IF matched_count = 1 THEN "detected"
                            ELSE "s detected"],
        since |-> since]

\* handler = rules_registry.get(rule_type); handler(rule, detections, task, rule_state, now)
handler(rule, detections, since, now) ==
    IF rule.type = "class_presence" THEN evaluate_class_presence(rule, detections, since, now)
    ELSE IF rule.type = "count_at_least" THEN evaluate_count_at_least(rule, detections, since, now)
    ELSE evaluate_class_count(rule, detections, since, now)

\* state.setdefault(rule_index, {"last_matched_since": None})
setdefault(since) == IF since = NoState THEN NoTime ELSE since

\* (mutant) every rule is evaluated and the last one with a label wins
RECURSIVE evaluate_rules_last_wins(_, _, _, _, _, _)
evaluate_rules_last_wins(i, rs, detections, st, res, now) ==
    IF i > Len(rs)
    THEN [event |-> NoEvent, state |-> st, results |-> res]
    ELSE IF rs[i].type \notin rules_registry
    THEN evaluate_rules_last_wins(i + 1, rs, detections, st, res, now)
    ELSE LET r == handler(rs[i], detections, setdefault(st[i]), now)
             rest == evaluate_rules_last_wins(i + 1, rs, detections,
                         [st EXCEPT ![i] = r.since],
                         [res EXCEPT ![i] = IF r.label # NoLabel THEN "label" ELSE "none"],
                         now)
         IN IF r.label # NoLabel /\ rest.event = NoEvent
            THEN [rest EXCEPT !.event = [label |-> r.label, rule_index |-> i - 1]]
            ELSE rest

\* evaluate_rules, the loop `for rule_index, rule in enumerate(rules or [])`
\* from the rule at position i on: a rule without handler is skipped, the
\* first result with a label is returned with its rule_index
RECURSIVE evaluate_rules_from(_, _, _, _, _, _)
evaluate_rules_from(i, rs, detections, st, res, now) ==
    IF i > Len(rs)
    THEN [event |-> NoEvent, state |-> st, results |-> res]
    ELSE IF rs[i].type \notin rules_registry
    THEN evaluate_rules_from(i + 1, rs, detections, st, res, now)
    ELSE LET r == handler(rs[i], detections, setdefault(st[i]), now)
             st1 == [st EXCEPT ![i] = r.since]
         IN IF r.label # NoLabel
            THEN [event |-> [label |-> r.label, rule_index |-> i - 1],
                  state |-> st1,
                  results |-> [res EXCEPT ![i] = "label"]]
            ELSE evaluate_rules_from(i + 1, rs, detections, st1,
                                     [res EXCEPT ![i] = "none"], now)

evaluate_rules(rs, detections, st, now) ==
    evaluate_rules_from(1, rs, detections, st, [i \in 1..MaxRules |-> "not_evaluated"], now)

\* matched_now of the handlers with the duration gate
matched_now(rule, detections) ==
    IF rule.type = "class_presence" THEN detections[rule.class] > 0
    ELSE detections[rule.class] >= rule.min_count

HasGate(rule) == rule.type \in {"class_presence", "count_at_least"}

\* one frame of the worker: detections["ts"] = datetime.now(), then
\* event = evaluate_rules(loaded_rules, detections, task, rule_state, ts)
EvaluateFrame(detections, dt) ==
    /\ rule_now + dt <= MaxRuleTime
    /\ rule_now' = rule_now + dt
    /\ LET r == evaluate_rules(rules, detections, rule_state, rule_now + dt)
       IN /\ rule_state' = r.state
          /\ rule_results' = r.results
          /\ rule_event' = r.event
          /\ rule_window_hits' =
                 [i \in 1..MaxRules |->
                     IF /\ i <= Len(rules)
                        /\ HasGate(rules[i])
                        /\ r.results[i] # "not_evaluated"
                        /\ matched_now(rules[i], detections)
                     THEN Min(rule_window_hits[i] + 1, 2)
                     ELSE rule_window_hits[i]]
    /\ rule_held_since' =
           [i \in 1..MaxRules |->
               IF i <= Len(rules) /\ HasGate(rules[i]) /\ matched_now(rules[i], detections)
               THEN IF rule_held_since[i] = NoTime THEN rule_now + dt ELSE rule_held_since[i]
               ELSE NoTime]
    /\ rule_det' = detections
    /\ rule_before' = rule_state
    /\ UNCHANGED <<nonRuleVars, rules>>

\* (mutant) a patrol window starts and rule_state is kept
PatrolWindowStartKeepState ==
    /\ rule_det # NoDetections
    /\ rule_det' = NoDetections
    /\ rule_before' = rule_state
    /\ rule_results' = [i \in 1..MaxRules |-> "not_evaluated"]
    /\ rule_event' = NoEvent
    /\ rule_window_hits' = [i \in 1..MaxRules |-> 0]
    /\ rule_held_since' = [i \in 1..MaxRules |-> NoTime]
    /\ UNCHANGED <<nonRuleVars, rules, rule_now, rule_state>>

\* a patrol window starts: rule_state = {}; the histories start over
PatrolWindowStart ==
    /\ rule_det # NoDetections
    /\ rule_state' = [i \in 1..MaxRules |-> NoState]
    /\ rule_det' = NoDetections
    /\ rule_before' = rule_state
    /\ rule_results' = [i \in 1..MaxRules |-> "not_evaluated"]
    /\ rule_event' = NoEvent
    /\ rule_window_hits' = [i \in 1..MaxRules |-> 0]
    /\ rule_held_since' = [i \in 1..MaxRules |-> NoTime]
    /\ UNCHANGED <<nonRuleVars, rules, rule_now>>

RuleNext ==
    \/ \E detections \in Frames, dt \in 0..1 : EvaluateFrame(detections, dt)
    \/ PatrolWindowStart

RuleSpecInit == CoreIdle /\ nonRuleIdle /\ RuleInit

RuleSpec == RuleSpecInit /\ [][RuleNext]_vars

\* the rules whose handler, called on the frame and the state of the last
\* call, returns a label
Matching ==
    {i \in 1..Len(rules) :
        /\ rules[i].type \in rules_registry
        /\ handler(rules[i], rule_det, setdefault(rule_before[i]), rule_now).label # NoLabel}

Lowest(S) == CHOOSE i \in S : \A j \in S : i <= j

(* C22: for every frame evaluate_rules yields at most one event, the       *)
(* result of the lowest-index rule whose handler returns a label; no rule  *)
(* after it is evaluated, changes its state or contributes an event.       *)
C22_FirstMatchWins ==
    rule_det # NoDetections =>
        IF Matching = {}
        THEN rule_event = NoEvent
        ELSE LET w == Lowest(Matching)
             IN /\ rule_event.rule_index = w - 1
                /\ rule_event.label =
                       handler(rules[w], rule_det, setdefault(rule_before[w]), rule_now).label
                /\ \A j \in 1..MaxRules :
                       /\ rule_results[j] = "label" <=> j = w
                       /\ j > w => /\ rule_results[j] = "not_evaluated"
                                   /\ rule_state[j] = rule_before[j]

\* two rules would both return a label on the frame and the first one won
C22_Witness ==
    /\ rule_det # NoDetections
    /\ Cardinality(Matching) >= 2
    /\ rule_event.rule_index = 0
    /\ rule_results[2] = "not_evaluated"

\* the rules with the duration gate that the last call evaluated
Gated ==
    {i \in 1..Len(rules) :
        /\ rules[i].type \in {"class_presence", "count_at_least"}
        /\ rule_results[i] # "not_evaluated"}

\* matched_now of rule i on the frame of the last call
MatchedNow(i) == matched_now(rules[i], rule_det)

(* C23: class_presence and count_at_least with duration_seconds > 0 do not *)
(* fire on the first matching evaluation, which records                    *)
(* last_matched_since = now; they fire on a later matching evaluation      *)
(* exactly when now - last_matched_since >= duration_seconds; a            *)
(* non-matching evaluation clears last_matched_since; with                 *)
(* duration_seconds <= 0 every matching evaluation fires.                  *)
C23_DurationGate ==
    \A i \in Gated :
        LET since == setdefault(rule_before[i])
            fired == rule_results[i] = "label"
            d == rules[i].duration_seconds
        IN /\ ~MatchedNow(i) => ~fired /\ rule_state[i] = NoTime
           /\ MatchedNow(i) /\ d <= 0 => fired
           /\ MatchedNow(i) /\ d > 0 /\ since = NoTime =>
                  ~fired /\ rule_state[i] = rule_now
           /\ MatchedNow(i) /\ d > 0 /\ since # NoTime =>
                  /\ fired <=> rule_now - since >= d
                  /\ rule_state[i] = since

\* a rule with a duration fired: it had matched since duration_seconds ago
C23_Witness ==
    \E i \in Gated :
        /\ rules[i].duration_seconds > 0
        /\ rule_results[i] = "label"
        /\ rule_now - rule_before[i] = rules[i].duration_seconds

\* the rules with a duration gate and duration_seconds > 0 that fired in the
\* last call
FiredAfterWait ==
    {i \in Gated : rules[i].duration_seconds > 0 /\ rule_results[i] = "label"}

(* C33: in patrol mode the per-rule state is empty when a detection window *)
(* starts, and a rule with duration_seconds > 0 fires in a window only     *)
(* after an earlier evaluation of the same window matched: never on the    *)
(* strength of a match recorded in an earlier window.                      *)
C33_WindowStartsEmpty ==
    /\ rule_det = NoDetections => \A i \in 1..MaxRules : rule_state[i] = NoState
    /\ \A i \in FiredAfterWait : rule_window_hits[i] >= 2

\* a window starts while a rule with a duration was waiting on a recorded
\* match: the match is discarded
C33_Witness ==
    /\ rule_det = NoDetections
    /\ \E i \in 1..Len(rules) :
           /\ HasGate(rules[i])
           /\ rules[i].duration_seconds > 0
           /\ rule_before[i] >= 0
           /\ rule_state[i] = NoState

(* C39 (as claimed): a rule with duration_seconds > 0 fires on a frame     *)
(* only if its condition held on every frame the worker processed during   *)
(* the preceding duration_seconds, also when it is listed after a rule     *)
(* that matched on some of those frames.                                   *)
C39_FiresOnlyAfterContinuousMatch ==
    \A i \in FiredAfterWait :
        /\ rule_held_since[i] # NoTime
        /\ rule_now - rule_held_since[i] >= rules[i].duration_seconds

\* the second rule of the list fired after its wait while the first rule
\* had returned a label on an earlier frame of that wait
C39_Witness ==
    /\ 2 \in FiredAfterWait
    /\ rules[1].type \in rules_registry
    /\ rule_held_since[2] > rule_before[2]

(***************************************************************************)
(* AccSpec: evaluate_accident_presence, frame by frame.  A person of a     *)
(* frame is what _analyze measures of its keypoints: hip_y of the hip      *)
(* midpoint, the bounding height, the angle from the vertical, or nothing  *)
(* when a shoulder or hip keypoint is missing.                             *)
(***************************************************************************)
DEFAULT_FALL_SPEED == 6
DEFAULT_LYING_ANGLE == 45
DEFAULT_CONFIRM_FRAMES == 2
DEFAULT_STATIC_LYING_FRAMES == 3

HipYs == {0, 10, 20}
Heights == {10, 30, 60, 100}
Angles == {30, 60}

\* a person with a shoulder or hip keypoint missing
Unmeasured == [valid |-> FALSE, hip_y |-> 0, height |-> 0, angle |-> 0]

Persons ==
    {[valid |-> TRUE, hip_y |-> y, height |-> h, angle |-> a] :
        y \in HipYs, h \in Heights, a \in Angles} \cup {Unmeasured}

\* detections["keypoints"]: one entry per detected person
KeypointLists == UNION {[0..(n - 1) -> Persons] : n \in 1..MaxSlots}

\* _analyze(person, prev): (fall_motion, collapsed, lying, metrics), with
\* height / prev["height"] < 0.7 written without the division
\* (DEFAULT_HEIGHT_RATIO is 7 / 10)
analyze(person, prev) ==
    IF ~person.valid
    THEN [fall_motion |-> FALSE, collapsed |-> FALSE, lying |-> FALSE, metrics |-> NoMetrics]
    ELSE [fall_motion |-> prev # NoMetrics /\ person.hip_y - prev.hip_y > DEFAULT_FALL_SPEED,
          collapsed |-> prev # NoMetrics /\ prev.height > 0
                        /\ 10 * person.height < 7 * prev.height,
          lying |-> person.angle > DEFAULT_LYING_ANGLE,
          metrics |-> [hip_y |-> person.hip_y, height |-> person.height]]

\* (mutant) a frame without the three conditions resets the counter
FallCounterReset(falling, counter) == IF falling THEN counter + 1 ELSE 0

\* "Method 1": fall_motion_counters[idx] after the frame
FallCounter(falling, counter) ==
    IF falling THEN counter + 1 ELSE IF counter - 1 > 0 THEN counter - 1 ELSE 0

\* "Method 2": static_lying_counters[idx] after the frame
StaticCounter(lying, height, counter) ==
    IF lying
    THEN IF height > 20
         THEN counter + 1
         ELSE IF counter - 1 > 0 THEN counter - 1 ELSE 0
    ELSE 0

\* one iteration of `for idx, person in enumerate(keypoints)`
PersonStep(person, prev, fall, static) ==
    LET a == analyze(person, prev)
        falling == a.fall_motion /\ a.collapsed /\ a.lying
        f == FallCounter(falling, fall)
        s == StaticCounter(a.lying, a.metrics.height, static)
    IN IF a.metrics = NoMetrics
       THEN [history |-> prev, fall |-> fall, static |-> static,
             trigger |-> "none", seen |-> "skipped"]
       ELSE [history |-> a.metrics, fall |-> f, static |-> s,
             trigger |-> IF f >= DEFAULT_CONFIRM_FRAMES THEN "motion"
                         ELSE IF s >= DEFAULT_STATIC_LYING_FRAMES THEN "static"
                         ELSE "none",
             seen |-> IF falling THEN "falling" ELSE "other"]

\* lying and height > 20 held for the person on this frame
LyingTall(person) ==
    person.valid /\ person.angle > DEFAULT_LYING_ANGLE /\ person.height > 20

\* the run of consecutive frames with lying and height > 20, counted up to
\* DEFAULT_STATIC_LYING_FRAMES
Run(person, run) ==
    IF ~LyingTall(person) THEN 0
    ELSE IF run < DEFAULT_STATIC_LYING_FRAMES THEN run + 1 ELSE run

\* a frame whose classes do not hold the target class: return None, the
\* rule state is left as it is
AccNoTarget ==
    /\ acc_frames < MaxAccFrames
    /\ acc_frames' = acc_frames + 1
    /\ acc_seen' = [idx \in Slots |-> "absent"]
    /\ acc_fall_before' = fall_motion_counters
    /\ acc_trigger' = [idx \in Slots |-> "none"]
    /\ acc_run' = [idx \in Slots |-> 0]
    /\ UNCHANGED <<nonAccVars, history, fall_motion_counters, static_lying_counters>>

\* a frame with the target class and no keypoints: rule_state.clear()
AccNoKeypoints ==
    /\ acc_frames < MaxAccFrames
    /\ acc_frames' = acc_frames + 1
    /\ history' = [idx \in Slots |-> NoMetrics]
    /\ fall_motion_counters' = [idx \in Slots |-> 0]
    /\ static_lying_counters' = [idx \in Slots |-> 0]
    /\ acc_seen' = [idx \in Slots |-> "absent"]
    /\ acc_fall_before' = fall_motion_counters
    /\ acc_trigger' = [idx \in Slots |-> "none"]
    /\ acc_run' = [idx \in Slots |-> 0]
    /\ UNCHANGED nonAccVars

\* a frame with keypoints: the slots no longer present are cleaned up (the
\* loop runs over history.keys()), the present ones are analysed in order
AccFrame(keypoints) ==
    /\ acc_frames < MaxAccFrames
    /\ acc_frames' = acc_frames + 1
    /\ LET present == DOMAIN keypoints
           step == [idx \in present |->
                       PersonStep(keypoints[idx], history[idx],
                                  fall_motion_counters[idx], static_lying_counters[idx])]
           popped == {idx \in Slots \ present : history[idx] # NoMetrics}
       IN /\ history' = [idx \in Slots |->
                            IF idx \in present THEN step[idx].history
                            ELSE IF idx \in popped THEN NoMetrics ELSE history[idx]]
          /\ fall_motion_counters' = [idx \in Slots |->
                            IF idx \in present THEN step[idx].fall
                            ELSE IF idx \in popped THEN 0 ELSE fall_motion_counters[idx]]
          /\ static_lying_counters' = [idx \in Slots |->
                            IF idx \in present THEN step[idx].static
                            ELSE IF idx \in popped THEN 0 ELSE static_lying_counters[idx]]
          /\ acc_seen' = [idx \in Slots |->
                            IF idx \in present THEN step[idx].seen ELSE "absent"]
          /\ acc_trigger' = [idx \in Slots |->
                            IF idx \in present THEN step[idx].trigger ELSE "none"]
          /\ acc_run' = [idx \in Slots |->
                            IF idx \in present THEN Run(keypoints[idx], acc_run[idx]) ELSE 0]
    /\ acc_fall_before' = fall_motion_counters
    /\ UNCHANGED nonAccVars

AccNext ==
    \/ AccNoTarget
    \/ AccNoKeypoints
    \/ \E keypoints \in KeypointLists : AccFrame(keypoints)

AccSpecInit == CoreIdle /\ ExtInit

AccSpec == AccSpecInit /\ [][AccNext]_vars

(* C24 as stated: on every evaluated frame the counter of each present     *)
(* person is incremented when fall_motion, collapsed and lying all hold    *)
(* and decremented (not below 0) otherwise, and the act-of-falling trigger *)
(* fires for the person exactly when the counter after the update is at    *)
(* least 2.                                                                *)
C24_CounterOfEveryPresentPerson ==
    \A idx \in Slots :
        acc_seen[idx] # "absent" =>
            /\ fall_motion_counters[idx] =
                   IF acc_seen[idx] = "falling"
                   THEN acc_fall_before[idx] + 1
                   ELSE IF acc_fall_before[idx] >= 1 THEN acc_fall_before[idx] - 1 ELSE 0
            /\ acc_trigger[idx] = "motion" <=> fall_motion_counters[idx] >= 2

(* C24 as the code has it: the statement holds for each present person     *)
(* whose shoulder and hip keypoints are all valid; a person with one of    *)
(* them missing is skipped, its counter is left as it is and nothing fires *)
(* for it on that frame.                                                   *)
C24_CounterOfEveryMeasuredPerson ==
    \A idx \in Slots :
        /\ acc_seen[idx] \in {"falling", "other"} =>
               /\ fall_motion_counters[idx] =
                      IF acc_seen[idx] = "falling"
                      THEN acc_fall_before[idx] + 1
                      ELSE IF acc_fall_before[idx] >= 1 THEN acc_fall_before[idx] - 1 ELSE 0
               /\ acc_trigger[idx] = "motion" <=> fall_motion_counters[idx] >= 2
        /\ acc_seen[idx] = "skipped" =>
               /\ fall_motion_counters[idx] = acc_fall_before[idx]
               /\ acc_trigger[idx] = "none"

\* the second frame in a row on which a person is falling: the trigger fires
C24_Witness ==
    \E idx \in Slots :
        /\ acc_seen[idx] = "falling"
        /\ acc_fall_before[idx] = 1
        /\ fall_motion_counters[idx] = 2
        /\ acc_trigger[idx] = "motion"

(* C25: the state-of-lying trigger fires for a person only when lying and  *)
(* height > 20 held on each of at least 3 consecutive frames ending at the *)
(* current frame; a frame where the condition does not hold or where the   *)
(* person is not evaluated restarts the count.                             *)
C25_StaticNeedsThreeConsecutive ==
    \A idx \in Slots :
        acc_trigger[idx] = "static" => acc_run[idx] >= DEFAULT_STATIC_LYING_FRAMES

\* the state-of-lying trigger fires on a frame before which the condition
\* did not hold on three frames in a row
C25_Witness ==
    \E idx \in Slots :
        /\ acc_trigger[idx] = "static"
        /\ acc_run[idx] < DEFAULT_STATIC_LYING_FRAMES

(***************************************************************************)
(* FmpSpec: the bytes of one encoder on their way to the viewers.  The     *)
(* unit is a piece of a box: the first piece of a box stands for its       *)
(* header (size and type), so a box is parsed once its pieces are all in   *)
(* the buffer.  The encoder writes ftyp, moov and then media.  What one    *)
(* read(4096) of the unbuffered pipe returns is any number of pieces.  An  *)
(* iteration of _broadcast_loop and the stretches of add_viewer between    *)
(* two awaits are one action each; ws.send_bytes delivers in call order.   *)
(* Encoder deaths and remove_viewer are the subject of WsSpec.             *)
(***************************************************************************)
\* the pieces of a box of the given type and size
Box(type, size) == [k \in 1..size |-> [type |-> type, size |-> size, k |-> k]]

\* the media bytes of the encoder, piece by piece
Media == [k \in 1..MaxMedia |-> [type |-> "media", size |-> 1, k |-> k]]

\* stdout of FFmpeg: ftyp, moov, then the fragments
EncoderOutput == Box("ftyp", 1) \o Box("moov", MoovSize) \o Media

\* the init segment of the stream
FtypMoov == Box("ftyp", 1) \o Box("moov", MoovSize)

\* _try_extract_init_segment: boxes are taken off the buffer while they are
\* complete; ftyp and moov go to _init_accum; at moov the init segment is
\* set and the buffer is cleared
RECURSIVE try_extract_init_segment(_, _)
try_extract_init_segment(buf, accum) ==
    IF Len(buf) < 1 \/ Len(buf) < buf[1].size
    THEN [buf |-> buf, accum |-> accum, init_segment |-> << >>, ready |-> FALSE]
    ELSE LET size == buf[1].size
             box == SubSeq(buf, 1, size)
             rest == SubSeq(buf, size + 1, Len(buf))
         IN IF buf[1].type = "moov"
            THEN [buf |-> << >>, accum |-> accum \o box,
                  init_segment |-> accum \o box, ready |-> TRUE]
            ELSE IF buf[1].type = "ftyp"
            THEN try_extract_init_segment(rest, accum \o box)
            ELSE try_extract_init_segment(rest, accum)

\* the websockets a message is sent to and that receive it
Send(received, to, message) ==
    [v \in Viewers |-> IF v \in to THEN Append(received[v], message) ELSE received[v]]

\* (mutant) the init segment is not sent to the viewers already attached
InitRecipientsNone(viewers) == {}

\* `for ws in state.viewers: await ws.send_bytes(state.init_segment)`
InitRecipients(viewers) == viewers

\* add_viewer with no stream: under the lock the process and the two tasks
\* are started, then the call sleeps 0.1 + 0.4 s, still holding the lock
AddViewerStart(v) ==
    /\ fmp_pc[v] = "idle"
    /\ fmp_lock = "free"
    /\ ~fmp_started
    /\ fmp_started' = TRUE
    /\ fmp_lock' = v
    /\ fmp_pc' = [fmp_pc EXCEPT ![v] = "starting"]
    /\ UNCHANGED <<nonFmpVars, fmp_viewers, fmp_pos, mp4_parse_buf, init_accum,
                   init_segment, init_ready, fmp_received, fmp_attached_at, fmp_sent>>

\* add_viewer from `if state.init_segment` on: the viewer joins
\* state.viewers, the lock is released and the init segment, if there was
\* one, is sent; no await lies between these steps
AddViewerAttach(v) ==
    /\ \/ fmp_pc[v] = "starting" /\ fmp_lock = v
       \/ fmp_pc[v] = "idle" /\ fmp_lock = "free" /\ fmp_started
    /\ fmp_viewers' = fmp_viewers \cup {v}
    /\ fmp_attached_at' = [fmp_attached_at EXCEPT ![v] = fmp_pos]
    /\ fmp_lock' = "free"
    /\ IF init_segment # << >>
       THEN /\ fmp_received' = Send(fmp_received, {v}, init_segment)
            /\ fmp_pc' = [fmp_pc EXCEPT ![v] = "attached"]
       ELSE /\ fmp_pc' = [fmp_pc EXCEPT ![v] = "wait"]
            /\ UNCHANGED fmp_received
    /\ UNCHANGED <<nonFmpVars, fmp_started, fmp_pos, mp4_parse_buf, init_accum,
                   init_segment, init_ready, fmp_sent>>

\* the wait loop of add_viewer finds state.init_segment under the lock and
\* sends it
AddViewerWaitSend(v) ==
    /\ fmp_pc[v] = "wait"
    /\ fmp_lock = "free"
    /\ init_segment # << >>
    /\ fmp_received' = Send(fmp_received, {v}, init_segment)
    /\ fmp_pc' = [fmp_pc EXCEPT ![v] = "attached"]
    /\ UNCHANGED <<nonFmpVars, fmp_started, fmp_lock, fmp_viewers, fmp_pos, mp4_parse_buf,
                   init_accum, init_segment, init_ready, fmp_attached_at, fmp_sent>>

\* the wait loop ends after its 50 rounds without an init segment
AddViewerWaitOver(v) ==
    /\ fmp_pc[v] = "wait"
    /\ init_segment = << >>
    /\ fmp_pc' = [fmp_pc EXCEPT ![v] = "attached"]
    /\ UNCHANGED <<nonFmpVars, fmp_started, fmp_lock, fmp_viewers, fmp_pos, mp4_parse_buf,
                   init_accum, init_segment, init_ready, fmp_received, fmp_attached_at,
                   fmp_sent>>

\* one iteration of _broadcast_loop with a non-empty chunk of n pieces
BroadcastChunk(n) ==
    /\ fmp_started
    /\ fmp_pos + n <= Len(EncoderOutput)
    /\ fmp_pos' = fmp_pos + n
    /\ LET chunk == SubSeq(EncoderOutput, fmp_pos + 1, fmp_pos + n)
       IN IF ~init_ready
          THEN LET x == try_extract_init_segment(mp4_parse_buf \o chunk, init_accum)
               IN /\ init_accum' = x.accum
                  /\ init_ready' = x.ready
                  /\ init_segment' = x.init_segment
                  /\ mp4_parse_buf' = x.buf
                  /\ IF x.ready
                     THEN \* the buffer was cleared at moov: `continue`
                          /\ fmp_received' =
                                 Send(fmp_received, InitRecipients(fmp_viewers), x.init_segment)
                          /\ IF x.buf # << >>
                             THEN fmp_sent' = fmp_sent \o x.buf
                             ELSE UNCHANGED fmp_sent
                     ELSE \* not ready yet: the chunk goes to the media broadcast
                          /\ fmp_received' = Send(fmp_received, fmp_viewers, chunk)
                          /\ fmp_sent' = fmp_sent \o chunk
          ELSE /\ fmp_received' = Send(fmp_received, fmp_viewers, chunk)
               /\ fmp_sent' = fmp_sent \o chunk
               /\ UNCHANGED <<mp4_parse_buf, init_accum, init_segment, init_ready>>
    /\ UNCHANGED <<nonFmpVars, fmp_started, fmp_lock, fmp_pc, fmp_viewers, fmp_attached_at>>

FmpNext ==
    \/ \E v \in Viewers : AddViewerStart(v)
    \/ \E v \in Viewers : AddViewerAttach(v)
    \/ \E v \in Viewers : AddViewerWaitSend(v)
    \/ \E v \in Viewers : AddViewerWaitOver(v)
    \/ \E n \in 1..MaxChunk : BroadcastChunk(n)

FmpSpecInit == CoreIdle /\ ExtInit

FmpSpec == FmpSpecInit /\ [][FmpNext]_vars

IsMedia(piece) == piece.type = "media"

HasMedia(message) == \E k \in 1..Len(message) : IsMedia(message[k])

(* C26: every viewer receives the complete init segment (ftyp + moov)      *)
(* before it receives any media bytes, whether it attaches before or after *)
(* the init segment is ready.                                              *)
C26_InitBeforeMedia ==
    \A v \in Viewers :
        \A i \in 1..Len(fmp_received[v]) :
            HasMedia(fmp_received[v][i]) =>
                \E j \in 1..(i - 1) : fmp_received[v][j] = FtypMoov

\* a viewer that attached before the init segment was ready has received
\* it from the broadcast loop, then media
C26_Witness ==
    \E v \in Viewers :
        /\ fmp_attached_at[v] \in 0..(Len(FtypMoov) - 1)
        /\ \E i \in 1..Len(fmp_received[v]) : HasMedia(fmp_received[v][i])

MediaOf(pieces) == SelectSeq(pieces, IsMedia)

\* the bytes of a sequence of messages, in order
RECURSIVE Flatten(_)
Flatten(messages) ==
    IF messages = << >> THEN << >> ELSE Head(messages) \o Flatten(Tail(messages))

\* the encoder output that the broadcast loop has read so far
ReadSoFar == SubSeq(EncoderOutput, 1, fmp_pos)

(* C28: no encoder output is lost at the init boundary: every byte the     *)
(* encoder produced after the end of moov and that the loop has read has   *)
(* been broadcast as media, also when it arrived in the same read as the   *)
(* end of moov, and a viewer attached from the start has received the      *)
(* media bytes in full.                                                    *)
C28_NoOutputLost ==
    /\ MediaOf(fmp_sent) = MediaOf(ReadSoFar)
    /\ \A v \in Viewers :
           fmp_attached_at[v] = 0 => MediaOf(Flatten(fmp_received[v])) = MediaOf(ReadSoFar)

\* the init segment is ready and a media byte that was read with the end
\* of moov was not broadcast, with a viewer attached from the start
C28_Witness ==
    /\ init_ready
    /\ \E v \in Viewers : fmp_attached_at[v] = 0
    /\ Len(MediaOf(fmp_sent)) < Len(MediaOf(ReadSoFar))

(***************************************************************************)
(* SigSpec: AWSSignalingClient.connect_and_stream, the `while True` loop   *)
(* around one signaling connection and one peer, and stop().               *)
(***************************************************************************)
\* RTCPeerConnection(configuration=config) after setLocalDescription(offer)
NewPeer == [connection |-> "new", signaling |-> "have-local-offer"]

\* `if self.pc: await self.pc.close(); self.pc = None`
ClosePeer(peers, p) ==
    IF p = NoProc THEN peers ELSE [peers EXCEPT ![p].connection = "closed"]

\* the top of `while True`: self._running = True and websockets.connect,
\* which connects (a new peer, an offer), is refused with a status code
\* (sleep only) or fails otherwise (peer clean-up, sleep)
SigConnect(outcome) ==
    /\ sig_pc = "connect"
    /\ sig_running' = TRUE
    /\ sig_left' = "none"
    /\ sig_slept' = FALSE
    /\ IF outcome = "connected"
       THEN /\ Len(sig_peers) < MaxPeers
            /\ sig_peers' = Append(sig_peers, NewPeer)
            /\ sig_peer' = Len(sig_peers) + 1
            /\ connection_needs_reconnect' = FALSE
            /\ sig_pc' = "messages"
       ELSE IF outcome = "status"
       THEN /\ sig_pc' = "sleep"
            /\ UNCHANGED <<sig_peers, sig_peer, connection_needs_reconnect>>
       ELSE /\ sig_peers' = ClosePeer(sig_peers, sig_peer)
            /\ sig_peer' = NoProc
            /\ sig_pc' = "sleep"
            /\ UNCHANGED connection_needs_reconnect
    /\ UNCHANGED nonSigVars

\* on_connection_state_change / on_ice_connection_state_change with state
\* "failed": the flag is set, nothing else
SigIceFailed ==
    /\ sig_pc = "messages"
    /\ sig_peers[sig_peer].connection = "new"
    /\ sig_peers' = [sig_peers EXCEPT ![sig_peer].connection = "failed"]
    /\ connection_needs_reconnect' = TRUE
    /\ UNCHANGED <<nonSigVars, sig_pc, sig_running, sig_peer, sig_left, sig_slept>>

\* the path after the message loop ended without an exception: the
\* websocket is closed by `async with`, `finally` closes the peer only when
\* _running is false, and `while True` goes round
LeaveLoop(cause) ==
    /\ sig_pc' = "connect"
    /\ sig_left' = cause
    /\ sig_slept' = FALSE
    /\ IF ~sig_running
       THEN /\ sig_peers' = ClosePeer(sig_peers, sig_peer)
            /\ sig_peer' = NoProc
       ELSE UNCHANGED <<sig_peers, sig_peer>>
    /\ UNCHANGED <<sig_running, connection_needs_reconnect>>

\* one message of `async for message in websocket`: break when not
\* _running or when the flag is set; otherwise an answer is applied in the
\* state have-local-offer and ignored in the state stable
SigMessage ==
    /\ sig_pc = "messages"
    /\ IF ~sig_running
       THEN LeaveLoop("stopped")
       ELSE IF connection_needs_reconnect
       THEN LeaveLoop("failed")
       ELSE /\ sig_peers[sig_peer].signaling = "have-local-offer"
            /\ sig_peers' = [sig_peers EXCEPT ![sig_peer].signaling = "stable"]
            /\ UNCHANGED <<sig_pc, sig_running, sig_peer, connection_needs_reconnect,
                           sig_left, sig_slept>>
    /\ UNCHANGED nonSigVars

\* the relay closes the websocket with a normal close: the iteration ends
\* without an exception
SigClosedOk ==
    /\ sig_pc = "messages"
    /\ LeaveLoop(IF sig_running THEN "closed" ELSE "stopped")
    /\ UNCHANGED nonSigVars

\* the websocket breaks: ConnectionClosed is raised; `if self._running`
\* the peer is closed and the client sleeps reconnect_delay, else it breaks
\* out of `while True` after `finally` closed the peer
SigDropped ==
    /\ sig_pc = "messages"
    /\ sig_peers' = ClosePeer(sig_peers, sig_peer)
    /\ sig_peer' = NoProc
    /\ sig_left' = IF sig_running THEN "dropped" ELSE "stopped"
    /\ sig_slept' = FALSE
    /\ sig_pc' = IF sig_running THEN "sleep" ELSE "returned"
    /\ UNCHANGED <<nonSigVars, sig_running, connection_needs_reconnect>>

\* asyncio.sleep(reconnect_delay) returns: `continue`
SigWake ==
    /\ sig_pc = "sleep"
    /\ sig_pc' = "connect"
    /\ sig_slept' = TRUE
    /\ UNCHANGED <<nonSigVars, sig_running, sig_peers, sig_peer, connection_needs_reconnect,
                   sig_left>>

\* stop(): _running = False, the websocket and the peer are closed
SigStop ==
    /\ sig_running
    /\ sig_running' = FALSE
    /\ sig_peers' = ClosePeer(sig_peers, sig_peer)
    /\ UNCHANGED <<nonSigVars, sig_pc, sig_peer, connection_needs_reconnect, sig_left,
                   sig_slept>>

SigNext ==
    \/ \E outcome \in {"connected", "status", "error"} : SigConnect(outcome)
    \/ SigIceFailed
    \/ SigMessage
    \/ SigClosedOk
    \/ SigDropped
    \/ SigWake
    \/ SigStop

SigSpecInit == CoreIdle /\ ExtInit

SigSpec == SigSpecInit /\ [][SigNext]_vars

\* the peers that have not been closed
OpenPeers == {p \in 1..Len(sig_peers) : sig_peers[p].connection # "closed"}

(* C29: after the signaling connection dropped or the peer's ICE or        *)
(* connection state became failed, the client closes that peer and starts  *)
(* the next connection attempt after reconnect_delay, on every path out of *)
(* the message loop: when it is about to connect again, no earlier peer is *)
(* open and the sleep has run.                                             *)
C29_PeerClosedAndDelayBeforeReconnect ==
    sig_pc = "connect" /\ sig_left \in {"failed", "closed", "dropped"} =>
        OpenPeers = {} /\ sig_slept

\* the client left the message loop because the peer had failed and is
\* about to connect again with that peer still open and without the delay
C29_Witness ==
    /\ sig_pc = "connect"
    /\ sig_left = "failed"
    /\ OpenPeers # {}
    /\ ~sig_slept

(***************************************************************************)
(* PaceSpec: the FPS pacing at the top of the detection loop of            *)
(* run_task_worker.  Time passes between any two statements; the work of a *)
(* tick (frame acquisition, detection, rules) takes any time, also none.   *)
(* A tick starts when the loop passes the pacing `if`.                     *)
(***************************************************************************)
Max(a, b) == IF a >= b THEN a ELSE b

\* (mutant) next_tick = next_tick + min_interval
NextTickNoCatchUp(tick, now) == tick + min_interval

\* next_tick = max(next_tick + min_interval, time.time())
NextTick(tick, now) == Max(tick + min_interval, now)

\* time passes
PaceTime ==
    /\ pace_now < MaxPaceTime
    /\ pace_now' = pace_now + 1
    /\ UNCHANGED <<nonPaceVars, pace_pc, next_tick, tick_starts>>

\* now_timestamp = time.time(); if now_timestamp < next_tick: the worker
\* goes to sleep, otherwise the tick starts
PaceCheck ==
    /\ pace_pc = "check"
    /\ Len(tick_starts) < MaxTicks
    /\ IF pace_now < next_tick
       THEN pace_pc' = "sleep" /\ UNCHANGED tick_starts
       ELSE pace_pc' = "update" /\ tick_starts' = Append(tick_starts, pace_now)
    /\ UNCHANGED <<nonPaceVars, pace_now, next_tick>>

\* time.sleep(next_tick - now_timestamp) returns, not before next_tick: the
\* tick starts
PaceWake ==
    /\ pace_pc = "sleep"
    /\ pace_now >= next_tick
    /\ pace_pc' = "update"
    /\ tick_starts' = Append(tick_starts, pace_now)
    /\ UNCHANGED <<nonPaceVars, pace_now, next_tick>>

\* next_tick = max(next_tick + min_interval, time.time())
PaceUpdate ==
    /\ pace_pc = "update"
    /\ next_tick' = NextTick(next_tick, pace_now)
    /\ pace_pc' = "work"
    /\ UNCHANGED <<nonPaceVars, pace_now, tick_starts>>

\* the rest of the loop body, back to the top of the loop
PaceWork ==
    /\ pace_pc = "work"
    /\ pace_pc' = "check"
    /\ UNCHANGED <<nonPaceVars, pace_now, next_tick, tick_starts>>

PaceNext ==
    \/ PaceTime
    \/ PaceCheck
    \/ PaceWake
    \/ PaceUpdate
    \/ PaceWork

PaceSpecInit == CoreIdle /\ ExtInit

PaceSpec == PaceSpecInit /\ [][PaceNext]_vars

(* C34: lateness is never repaid with a burst: for every k, tick k+2       *)
(* starts at least one period (min_interval) after tick k started, however *)
(* long the work of earlier ticks took.                                    *)
C34_NoBurstAfterLateness ==
    \A k \in 1..(Len(tick_starts) - 2) :
        tick_starts[k + 2] - tick_starts[k] >= min_interval

\* a tick started more than a period late, the next tick followed it within
\* less than a period, and a third tick has started
C34_Witness ==
    \E k \in 1..(Len(tick_starts) - 2) :
        /\ k >= 2
        /\ tick_starts[k] - tick_starts[k - 1] > 2 * min_interval
        /\ tick_starts[k + 1] - tick_starts[k] < min_interval

(***************************************************************************)
(* BcSpec: _broadcast_loop of one stream, await by await, with add_viewer  *)
(* and remove_viewer of the same stream.  The three run on one event loop: *)
(* another coroutine runs only while the broadcast loop awaits a chunk or  *)
(* a send_bytes.  add_viewer and remove_viewer hold self._lock, which the  *)
(* broadcast loop does not take.  The init segment has been sent.          *)
(***************************************************************************)
\* the next step of `for ws in state.viewers` with the set iterator of
\* CPython: RuntimeError when the set's size differs from the size at the
\* start of the loop, else the end of the loop or a viewer not yet yielded
\* (which one is the set's order; a set changed at equal size is iterated in
\* its new content)
ForNext(viewers, used, visited) ==
    IF Cardinality(viewers) # used THEN {"RuntimeError"}
    ELSE IF viewers \ visited = {} THEN {"StopIteration"}
    ELSE viewers \ visited

\* what follows one step of the `for`: the exception leaves `while` for the
\* outer `except Exception` and the task returns; at the end of the loop the
\* disconnected viewers are discarded and the next chunk is awaited; else
\* send_bytes(chunk) to the viewer is awaited
BcStep(viewers, used, visited, gone, step) ==
    IF step = "RuntimeError"
    THEN /\ bc_task' = "done"
         /\ bc_pc' = "read"
         /\ bc_ws' = ""
         /\ bc_viewers' = viewers
         /\ bc_visited' = {}
         /\ disconnected' = {}
         /\ bc_used' = 0
    ELSE IF step = "StopIteration"
    THEN /\ bc_task' = bc_task
         /\ bc_pc' = "read"
         /\ bc_ws' = ""
         /\ bc_viewers' = viewers \ gone
         /\ bc_visited' = {}
         /\ disconnected' = {}
         /\ bc_used' = 0
    ELSE /\ bc_task' = bc_task
         /\ bc_pc' = "send"
         /\ bc_ws' = step
         /\ bc_viewers' = viewers
         /\ bc_visited' = visited \cup {step}
         /\ disconnected' = gone
         /\ bc_used' = used

\* state.process.stdout.read returns a chunk: the `for` over the viewers
\* begins
BcRead ==
    /\ bc_task = "running"
    /\ bc_pc = "read"
    /\ chunks_sent < MaxBcChunks
    /\ chunks_sent' = chunks_sent + 1
    /\ \E step \in ForNext(bc_viewers, Cardinality(bc_viewers), {}) :
           BcStep(bc_viewers, Cardinality(bc_viewers), {}, {}, step)
    /\ UNCHANGED <<nonBcVars, bc_delivered>>

\* `await ws.send_bytes(chunk)` returns or raises, then the `for` goes on
BcSent(ok) ==
    /\ bc_task = "running"
    /\ bc_pc = "send"
    /\ bc_delivered' = IF ok THEN [bc_delivered EXCEPT ![bc_ws] = @ + 1] ELSE bc_delivered
    /\ LET gone == IF ok THEN disconnected ELSE disconnected \cup {bc_ws}
       IN \E step \in ForNext(bc_viewers, bc_used, bc_visited) :
              BcStep(bc_viewers, bc_used, bc_visited, gone, step)
    /\ UNCHANGED <<nonBcVars, chunks_sent>>

\* add_viewer for a stream whose process runs: state.viewers.add(websocket)
BcAddViewer(v) ==
    /\ bc_task = "running"
    /\ v \notin bc_viewers
    /\ bc_viewers' = bc_viewers \cup {v}
    /\ UNCHANGED <<nonBcVars, bc_task, bc_pc, chunks_sent, bc_used, bc_visited, bc_ws,
                   disconnected, bc_delivered>>

\* remove_viewer: state.viewers.discard(websocket); with no viewer left the
\* process is terminated and the broadcast task cancelled
BcRemoveViewer(v) ==
    /\ bc_task = "running"
    /\ v \in bc_viewers
    /\ bc_viewers' = bc_viewers \ {v}
    /\ bc_task' = IF bc_viewers \ {v} = {} THEN "done" ELSE bc_task
    /\ UNCHANGED <<nonBcVars, bc_pc, chunks_sent, bc_used, bc_visited, bc_ws,
                   disconnected, bc_delivered>>

BcNext ==
    \/ BcRead
    \/ \E ok \in BOOLEAN : BcSent(ok)
    \/ \E v \in Viewers : BcAddViewer(v)
    \/ \E v \in Viewers : BcRemoveViewer(v)

BcSpecInit == CoreIdle /\ ExtInit

BcSpec == BcSpecInit /\ [][BcNext]_vars

(* C37 (as claimed): adding or removing a viewer while the broadcast task  *)
(* is sending to the viewer set never ends the task: while a viewer is     *)
(* attached the task runs.                                                 *)
C37_BroadcastSurvivesViewerChange ==
    bc_viewers # {} => bc_task = "running"

\* a viewer was added or removed while the task awaits a send_bytes of its
\* `for` over the viewers
C37_Witness ==
    /\ bc_task = "running"
    /\ bc_pc = "send"
    /\ Cardinality(bc_viewers) # bc_used
    /\ bc_viewers # {}
====
